---------------------------- MODULE Spec2Model ----------------------------
(***************************************************************************)
(* State-machine model of the cpu-sim core: the CPU engine (registers,     *)
(* memory, flags, PC/SP, the micro-operation pipeline), the two compute    *)
(* unit implementations found in the repository (the full-cycle unit of    *)
(* src/src/gpu/gpu.ts and the phase-stepped unit of src/unnamed/part_003)  *)
(* and the driver calls that operate them.                                 *)
(***************************************************************************)
EXTENDS Integers, Sequences, FiniteSets, TLC

(***************************************************************************)
(* Program constants                                                       *)
(***************************************************************************)
REGISTER_COUNT == 8
MEMORY_SIZE == 256
STACK_START == 255
GPU_CORE_COUNT == 8
VRAM_SIZE == 128

(***************************************************************************)
(* Bounds of the model                                                     *)
(***************************************************************************)
\* Step/microStep are not taken once the cycle counter reaches this value
\* (only the looping program gets there).
MaxCycles == 6

(***************************************************************************)
(* Number helpers: JavaScript arithmetic on exact integers                 *)
(***************************************************************************)
Pow2(n) == 2 ^ n

\* v & 0xffff and v & 0xff: the low bits of the two's-complement integer
Mask16(v) == v % 65536
Mask8(v) == v % 256

Abs(v) == IF v < 0 THEN -v ELSE v
Min(a, b) == IF a < b THEN a ELSE b

\* Math.floor(a / b), b # 0
FloorDiv(a, b) ==
    LET q == Abs(a) \div Abs(b)
        exact == (Abs(a) % Abs(b)) = 0
    IN  IF (a >= 0) = (b > 0) THEN q
        ELSE IF exact THEN -q ELSE -(q + 1)

\* a % b of JavaScript: the remainder has the sign of the dividend, b # 0
JsRem(a, b) ==
    LET r == Abs(a) % Abs(b)
    IN  IF a < 0 THEN -r ELSE r

\* Math.ceil(a / b) for b > 0 (Math.ceil of a value in (-1, 0] is 0)
CeilDiv(a, b) ==
    IF a >= 0 THEN (a + b - 1) \div b ELSE -((-a) \div b)

\* Values stay within the 32-bit signed integers here, where ToInt32 is the
\* identity; the bitwise operators then act on the two's-complement digits.
RECURSIVE BitsOp(_, _, _)
BitsOp(kind, a, b) ==
    IF a \in {0, -1} /\ b \in {0, -1}
    THEN CASE kind = "AND" -> IF a = -1 /\ b = -1 THEN -1 ELSE 0
           [] kind = "OR" -> IF a = -1 \/ b = -1 THEN -1 ELSE 0
           [] OTHER -> IF a # b THEN -1 ELSE 0
    ELSE LET x == a % 2
             y == b % 2
             bit == CASE kind = "AND" -> IF x = 1 /\ y = 1 THEN 1 ELSE 0
                      [] kind = "OR" -> IF x = 1 \/ y = 1 THEN 1 ELSE 0
                      [] OTHER -> IF x # y THEN 1 ELSE 0
         IN  bit + 2 * BitsOp(kind, FloorDiv(a, 2), FloorDiv(b, 2))

\* a & b, a | b, a ^ b
BitAnd(a, b) == BitsOp("AND", a, b)
BitOr(a, b) == BitsOp("OR", a, b)
BitXor(a, b) == BitsOp("XOR", a, b)
\* (a << n) & 0xffff: the shift count is taken modulo 32
ShiftLeftMask16(a, n) ==
    IF n % 32 >= 16 THEN 0 ELSE Mask16(Mask16(a) * Pow2(n % 32))
\* a >>> n: a is read as an unsigned 32-bit number
ShiftRightU(a, n) ==
    IF a >= 0 THEN (IF n % 32 = 31 THEN 0 ELSE a \div Pow2(n % 32))
    ELSE FloorDiv(a, Pow2(n % 32)) + Pow2(32 - (n % 32))

\* Math.floor(Math.sqrt(x)) for x >= 0
ISqrt(x) == CHOOSE r \in 0..x : r * r <= x /\ (r + 1) * (r + 1) > x

\* arr[i] = v on a JavaScript array: an index outside the array's indices
\* becomes a new property of the array object
ArrSet(arr, i, v) == [j \in (DOMAIN arr) \cup {i} |-> IF j = i THEN v ELSE arr[j]]
\* arr[i] ?? 0
ArrGet(arr, i) == IF i \in DOMAIN arr THEN arr[i] ELSE 0

(***************************************************************************)
(* Instructions: the instruction text split into opcode and operand tokens *)
(***************************************************************************)
Reg(n) == [k |-> "reg", n |-> n, s |-> ""]     \* token R<n>, n one digit
Imm(v) == [k |-> "imm", n |-> v, s |-> ""]     \* decimal or 0x literal
Id(s) == [k |-> "id", n |-> 0, s |-> s]        \* bare identifier
Ins(op, args) == [op |-> op, args |-> args]

EmptyIR == Ins("", <<>>)                       \* instructionRegister = ''
UndefinedIR == Ins("undefined", <<>>)          \* program[pc] past the array

LabelNames == {"loop", "sub"}
NoLabel == -1
NoLabels == [l \in LabelNames |-> NoLabel]


(***************************************************************************)
(* CPU: operand parsing and flags                                          *)
(***************************************************************************)
\* /^R\d$/i.test(val)
isRegister(o) == o.k = "reg"

\* getRegisterIndex returns normally (otherwise throws "Invalid register")
RegOk(o) == o.k = "reg" /\ o.n >= 0 /\ o.n < REGISTER_COUNT
getRegisterIndex(o) == o.n

\* parseValue returns normally (otherwise throws)
ValOk(c, o) ==
    CASE o.k = "reg" -> RegOk(o)
      [] o.k = "imm" -> TRUE
      [] OTHER -> o.s \in LabelNames /\ c.labels[o.s] # NoLabel

\* the message of the exception parseValue throws
ValErr(o) == IF o.k = "reg" THEN "Invalid register" ELSE "Invalid value"

parseValue(c, o) ==
    CASE o.k = "reg" -> c.registers[getRegisterIndex(o)]
      [] o.k = "imm" -> o.n
      [] OTHER -> c.labels[o.s]

setFlags(value) ==
    [zero |-> value = 0,
     negative |-> value < 0 \/ Mask16(value) >= 32768,
     carry |-> value > 65535 \/ value < 0]

(***************************************************************************)
(* CPU: generateMicroOps.  A micro-operation is modelled by its stage tag; *)
(* the result says whether the call threw (err # "") and otherwise lists   *)
(* the stages of the instruction's micro-operations.                       *)
(***************************************************************************)
ArithOps == {"ADD", "SUB", "MUL", "DIV", "MOD", "AND", "OR", "XOR"}
CondJumps == {"JZ", "JE", "JNZ", "JNE", "JG", "JGE", "JL", "JLE"}
BridgeOps == {"GLOAD", "GSTORE", "GEXEC", "GWAIT", "GRESULT", "GWRITE", "GREAD"}
HaltOps == {"HALT", "HLT"}

\* the condition named in the description of a conditional jump's first
\* execute micro-op
conditionMap(op) ==
    CASE op \in {"JZ", "JE"} -> "Zero=1"
      [] op \in {"JNZ", "JNE"} -> "Zero=0"
      [] op = "JG" -> "Zero=0 AND Neg=0"
      [] op = "JGE" -> "Neg=0"
      [] op = "JL" -> "Neg=1"
      [] op = "JLE" -> "Zero=1 OR Neg=1"

MicroOk(stages) == [err |-> "", ops |-> stages]
MicroThrow(msg) == [err |-> msg, ops |-> <<>>]

\* the first operand among idx (in order) whose parseValue throws, 0 if none
\* an operand the instruction text does not have is parts[i] = undefined, and
\* parseValue(undefined) throws a TypeError at val.trim()
FirstBadValue(c, ins, idx) ==
    LET bad == {i \in 1..Len(idx) :
                   idx[i] > Len(ins.args) \/ ~ValOk(c, ins.args[idx[i]])}
    IN  IF bad = {} THEN 0 ELSE idx[CHOOSE i \in bad : \A j \in bad : i <= j]

\* the message of the exception parseValue throws on the b-th operand
OperandErr(ins, b) == IF b > Len(ins.args) THEN "TypeError" ELSE ValErr(ins.args[b])

\* every listed operand is parsed with parseValue before any micro-op is built
MicroAfterValues(c, ins, idx, stages) ==
    LET b == FirstBadValue(c, ins, idx)
    IN  IF b = 0 THEN MicroOk(stages) ELSE MicroThrow(OperandErr(ins, b))

generateMicroOps(c, ins) ==
    LET op == ins.op
        a == ins.args
        F == "fetch"
        D == "decode"
        E == "execute"
        W == "writeback"
    IN  CASE op = "undefined" -> MicroThrow("TypeError")
          [] op = "MOV" -> MicroAfterValues(c, ins, <<2>>, <<F, D, E, W>>)
          [] op \in ArithOps ->
                IF ~RegOk(a[1]) THEN MicroThrow("Invalid register")
                ELSE MicroAfterValues(c, ins, <<2>>, <<F, D, E, E, E, W>>)
          [] op \in {"INC", "DEC", "NOT"} ->
                IF ~RegOk(a[1]) THEN MicroThrow("Invalid register")
                ELSE MicroOk(<<F, D, E, E, W>>)
          [] op \in {"SHL", "SHR"} ->
                IF ~ValOk(c, a[2]) THEN MicroThrow(ValErr(a[2]))
                ELSE IF ~RegOk(a[1]) THEN MicroThrow("Invalid register")
                ELSE MicroOk(<<F, D, E, E, W>>)
          [] op = "CMP" -> MicroAfterValues(c, ins, <<1, 2>>, <<F, D, E, E, E>>)
          [] op = "JMP" -> MicroAfterValues(c, ins, <<1>>, <<F, D, E>>)
          [] op \in CondJumps -> MicroAfterValues(c, ins, <<1>>, <<F, D, E, E>>)
          [] op = "LOAD" -> MicroAfterValues(c, ins, <<2>>, <<F, D, E, E, W>>)
          [] op = "STORE" -> MicroAfterValues(c, ins, <<1, 2>>, <<F, D, E, E, W>>)
          [] op = "PUSH" -> MicroAfterValues(c, ins, <<1>>, <<F, D, E, E, W, W>>)
          [] op = "POP" -> MicroOk(<<F, D, E, E, W>>)
          [] op = "CALL" -> MicroAfterValues(c, ins, <<1>>, <<F, D, E, E, W>>)
          [] op = "RET" -> MicroOk(<<F, D, E, E>>)
          [] op \in {"NOP", "HALT", "HLT", "GWAIT", "GRESULT"} -> MicroOk(<<F, D, E>>)
          [] op \in {"GLOAD", "GSTORE"} -> MicroAfterValues(c, ins, <<1, 2, 3>>, <<F, D, E>>)
          [] op = "GEXEC" -> MicroAfterValues(c, ins, <<2, 3, 4>>, <<F, D, E>>)
          [] op = "GWRITE" -> MicroAfterValues(c, ins, <<1, 2>>, <<F, D, E>>)
          [] op = "GREAD" -> MicroAfterValues(c, ins, <<2>>, <<F, D, E>>)
          [] OTHER -> MicroOk(<<F, D, E>>)

(***************************************************************************)
(* Compute unit.  One record holds the fields of both implementations;     *)
(* kind = "cycle" is the full-cycle unit (src/src/gpu/gpu.ts), kind =      *)
(* "phase" the phase-stepped unit (src/unnamed/part_003).  Fields a class  *)
(* does not have keep their default value.                                 *)
(***************************************************************************)
Cores == 0..(GPU_CORE_COUNT - 1)
IdleCore == [busy |-> FALSE, currentOp |-> "", inputA |-> 0, inputB |-> 0, output |-> 0]
ReductionOps == {"VDOT", "VSUM", "VMAX", "VMIN"}
TwoInputOps == {"VADD", "VSUB", "VMUL", "VDIV", "VDOT"}

GpuEvent(type, stage) == [type |-> type, stage |-> stage]
GpuRes(g, ev, ret) == [gpu |-> g, ev |-> ev, ret |-> ret]

\* GPU.reset (both classes)
GPUreset(g) ==
    [kind |-> g.kind,
     vram |-> [i \in 0..(VRAM_SIZE - 1) |-> 0],
     cores |-> [i \in Cores |-> IdleCore],
     busy |-> FALSE,
     currentOp |-> "",
     currentStage |-> "idle",
     currentBatch |-> 0,
     totalBatches |-> 0,
     srcAddr |-> 0,
     dstAddr |-> 0,
     length |-> 0,
     scalar |-> 0,
     result |-> 0,
     pendingOp |-> <<>>,
     cyclesRemaining |-> 0,
     currentCoreIndex |-> 0]

NewGPU(kind) == GPUreset([kind |-> kind])

RECURSIVE LoadLoop(_, _, _, _, _, _)
\* the loop of loadToVRAM from index i on
LoadLoop(vram, mem, cpuAddr, vramAddr, i, length) ==
    IF i >= length THEN vram
    ELSE LoadLoop(ArrSet(vram, JsRem(vramAddr + i, VRAM_SIZE),
                         ArrGet(mem, Mask8(cpuAddr + i))),
                  mem, cpuAddr, vramAddr, i + 1, length)

loadToVRAM(g, cpuMemory, cpuAddr, vramAddr, length) ==
    GpuRes([g EXCEPT !.vram = LoadLoop(g.vram, cpuMemory, cpuAddr, vramAddr, 0, length)],
           <<GpuEvent("transfer", "execute")>>, "microOp")

RECURSIVE StoreLoop(_, _, _, _, _, _)
\* the loop of storeFromVRAM from index i on; the result is the CPU memory
StoreLoop(mem, vram, vramAddr, cpuAddr, i, length) ==
    IF i >= length THEN mem
    ELSE StoreLoop(ArrSet(mem, Mask8(cpuAddr + i),
                          ArrGet(vram, JsRem(vramAddr + i, VRAM_SIZE))),
                   vram, vramAddr, cpuAddr, i + 1, length)

storeFromVRAM(g, cpuMemory, vramAddr, cpuAddr, length) ==
    [mem |-> StoreLoop(cpuMemory, g.vram, vramAddr, cpuAddr, 0, length),
     ev |-> <<GpuEvent("transfer", "execute")>>]

writeVRAM(g, addr, value) ==
    [g EXCEPT !.vram = ArrSet(g.vram, JsRem(addr, VRAM_SIZE), Mask16(value))]

readVRAM(g, addr) == ArrGet(g.vram, JsRem(addr, VRAM_SIZE))

\* the switch computing core.output; an unknown operation leaves the output
LaneOutput(op, inputA, inputB, scalar, old) ==
    CASE op = "VADD" -> Mask16(inputA + inputB)
      [] op = "VSUB" -> Mask16(inputA - inputB)
      [] op = "VMUL" -> Mask16(inputA * inputB)
      [] op = "VDIV" -> IF inputB # 0 THEN FloorDiv(inputA, inputB) ELSE 0
      [] op = "VSCALE" -> Mask16(inputA * scalar)
      [] op = "VDOT" -> Mask16(inputA * inputB)
      [] op \in {"VSUM", "VMAX", "VMIN", "VCOPY"} -> inputA
      [] op = "VABS" -> IF inputA > 32767 THEN Mask16(65536 - inputA) ELSE inputA
      [] op = "VSQRT" -> ISqrt(inputA)
      [] OTHER -> old

\* the second operand a lane is given
LaneInputB(op, vram, dstIdx, scalar) ==
    IF op \in TwoInputOps THEN ArrGet(vram, dstIdx)
    ELSE IF op = "VSCALE" THEN scalar
    ELSE 0

\* the reduction step of one element into the result register
Reduce(op, result, elementIndex, output) ==
    CASE op \in {"VDOT", "VSUM"} -> Mask16(result + output)
      [] op = "VMAX" -> IF elementIndex = 0 \/ output > result THEN output ELSE result
      [] op = "VMIN" -> IF elementIndex = 0 \/ output < result THEN output ELSE result
      [] OTHER -> result

(***************************************************************************)
(* Phase-stepped unit (src/unnamed/part_003)                               *)
(***************************************************************************)
PendingOp(op, srcAddr, dstAddr, length, scalar) ==
    [op |-> op, srcAddr |-> srcAddr, dstAddr |-> dstAddr, length |-> length,
     scalar |-> scalar]

\* a variant of startOperation that queues the descriptor without marking the
\* unit busy
startOperationUnmarked(g, op, srcAddr, dstAddr, length, scalar) ==
    GpuRes([g EXCEPT !.pendingOp = <<PendingOp(op, srcAddr, dstAddr, length, scalar)>>,
                     !.currentStage = "idle"],
           <<>>, "void")

startOperationPhase(g, op, srcAddr, dstAddr, length, scalar) ==
    GpuRes([g EXCEPT !.pendingOp = <<PendingOp(op, srcAddr, dstAddr, length, scalar)>>,
                     !.busy = TRUE,
                     !.currentStage = "idle"],
           <<>>, "void")

hasPendingWork(g) == g.pendingOp # <<>> \/ (g.busy /\ g.currentStage # "idle")

doDecode(g) ==
    LET pending == g.pendingOp[1]
        len == Min(pending.length, VRAM_SIZE)
    IN  GpuRes([g EXCEPT !.pendingOp = <<>>,
                         !.currentOp = pending.op,
                         !.srcAddr = pending.srcAddr,
                         !.dstAddr = pending.dstAddr,
                         !.length = len,
                         !.scalar = pending.scalar,
                         !.result = 0,
                         !.currentBatch = 0,
                         !.totalBatches = CeilDiv(len, GPU_CORE_COUNT),
                         !.currentStage = "decode",
                         !.cores = [i \in Cores |->
                                      [IdleCore EXCEPT !.currentOp = pending.op]]],
               <<GpuEvent("micro", "decode")>>, "decode")

\* a variant of doFetch that loads every lane, also beyond the last element
doFetchEveryLane(g) ==
    LET elem(i) == g.currentBatch * GPU_CORE_COUNT + i
        lane(i) ==
            [busy |-> TRUE,
             currentOp |-> g.currentOp,
             inputA |-> ArrGet(g.vram, JsRem(g.srcAddr + elem(i), VRAM_SIZE)),
             inputB |-> LaneInputB(g.currentOp, g.vram,
                                   JsRem(g.dstAddr + elem(i), VRAM_SIZE), g.scalar),
             output |-> 0]
    IN  GpuRes([g EXCEPT !.currentStage = "fetch",
                         !.cores = [i \in Cores |-> lane(i)]],
               <<GpuEvent("micro", "fetch")>>, "fetch")

doFetch(g) ==
    LET elem(i) == g.currentBatch * GPU_CORE_COUNT + i
        lane(i) ==
            [busy |-> TRUE,
             currentOp |-> g.currentOp,
             inputA |-> ArrGet(g.vram, JsRem(g.srcAddr + elem(i), VRAM_SIZE)),
             inputB |-> LaneInputB(g.currentOp, g.vram,
                                   JsRem(g.dstAddr + elem(i), VRAM_SIZE), g.scalar),
             output |-> 0]
    IN  GpuRes([g EXCEPT !.currentStage = "fetch",
                         !.cores = [i \in Cores |->
                                      IF elem(i) < g.length THEN lane(i) ELSE g.cores[i]]],
               <<GpuEvent("micro", "fetch")>>, "fetch")

doExecute(g) ==
    GpuRes([g EXCEPT !.currentStage = "execute",
                     !.cores = [i \in Cores |->
                          IF g.cores[i].busy
                          THEN [g.cores[i] EXCEPT !.output =
                                   LaneOutput(g.currentOp, g.cores[i].inputA,
                                              g.cores[i].inputB, g.scalar, @)]
                          ELSE g.cores[i]]],
           <<GpuEvent("micro", "execute")>>, "execute")

RECURSIVE WritebackLoop(_, _)
\* the loop of doWriteback from core coreId on
WritebackLoop(g, coreId) ==
    LET elementIndex == g.currentBatch * GPU_CORE_COUNT + coreId
        core == g.cores[coreId]
        dstIdx == JsRem(g.dstAddr + elementIndex, VRAM_SIZE)
        written ==
            IF g.currentOp \in ReductionOps
            THEN [g EXCEPT !.result = Reduce(g.currentOp, g.result, elementIndex,
                                             core.output)]
            ELSE [g EXCEPT !.vram = ArrSet(g.vram, dstIdx, core.output)]
    IN  IF coreId >= GPU_CORE_COUNT \/ elementIndex >= g.length THEN g
        ELSE IF ~core.busy THEN WritebackLoop(g, coreId + 1)
        ELSE WritebackLoop([written EXCEPT !.cores[coreId].busy = FALSE], coreId + 1)

\* a variant of doWriteback that also stores the result register at dstAddr
doWritebackStoring(g) ==
    LET w == WritebackLoop([g EXCEPT !.currentStage = "writeback"], 0)
    IN  GpuRes([w EXCEPT !.currentBatch = @ + 1,
                         !.vram = ArrSet(w.vram, JsRem(g.dstAddr, VRAM_SIZE), w.result)],
               <<GpuEvent("micro", "writeback")>>, "writeback")

doWriteback(g) ==
    LET w == WritebackLoop([g EXCEPT !.currentStage = "writeback"], 0)
    IN  GpuRes([w EXCEPT !.currentBatch = @ + 1],
               <<GpuEvent("micro", "writeback")>>, "writeback")

\* a variant of doComplete that leaves the unit marked busy
doCompleteStillBusy(g) ==
    GpuRes([g EXCEPT !.currentStage = "idle",
                     !.cores = [i \in Cores |->
                                  [g.cores[i] EXCEPT !.busy = FALSE, !.currentOp = ""]]],
           <<GpuEvent("complete", "idle")>>, "idle")

doComplete(g) ==
    GpuRes([g EXCEPT !.busy = FALSE,
                     !.currentStage = "idle",
                     !.cores = [i \in Cores |->
                                  [g.cores[i] EXCEPT !.busy = FALSE, !.currentOp = ""]]],
           <<GpuEvent("complete", "idle")>>, "idle")

\* GPU.microStep of the phase-stepped unit
gpuMicroStep(g) ==
    IF g.pendingOp # <<>> THEN doDecode(g)
    ELSE IF ~g.busy \/ g.currentStage = "idle" THEN GpuRes(g, <<>>, "null")
    ELSE CASE g.currentStage = "decode" -> doFetch(g)
           [] g.currentStage = "fetch" -> doExecute(g)
           [] g.currentStage = "execute" -> doWriteback(g)
           [] g.currentStage = "writeback" ->
                 IF g.currentBatch < g.totalBatches THEN doFetch(g) ELSE doComplete(g)
           [] OTHER -> GpuRes(g, <<>>, "null")

\* the result of a loop of stepping calls after one more call
Accumulate(r, n) == GpuRes(n.gpu, r.ev \o n.ev, n.ret)

RECURSIVE FullCycleLoop(_)
\* the while loop of fullCycle; r is the result of the last microStep
FullCycleLoop(r) ==
    IF ~hasPendingWork(r.gpu) THEN r
    ELSE FullCycleLoop(Accumulate(r, gpuMicroStep(r.gpu)))

fullCycle(g) == FullCycleLoop(GpuRes(g, <<>>, "null"))

(***************************************************************************)
(* Full-cycle unit (src/src/gpu/gpu.ts)                                    *)
(***************************************************************************)
startOperationCycle(g, op, srcAddr, dstAddr, length, scalar) ==
    LET len == Min(length, VRAM_SIZE)
    IN  GpuRes([g EXCEPT !.busy = TRUE,
                         !.currentOp = op,
                         !.srcAddr = srcAddr,
                         !.dstAddr = dstAddr,
                         !.length = len,
                         !.scalar = scalar,
                         !.result = 0,
                         !.currentCoreIndex = 0,
                         !.cyclesRemaining = CeilDiv(len, GPU_CORE_COUNT),
                         !.cores = [i \in Cores |-> IdleCore]],
               <<GpuEvent("start", "")>>, "microOp")

\* one core's work in cycle(): fetch, compute, write or reduce
CycleCore(g, coreId, elementIndex, inputA, inputB, dstIdx, output) ==
    LET core == [busy |-> TRUE, currentOp |-> g.currentOp, inputA |-> inputA,
                 inputB |-> inputB, output |-> output]
    IN  IF g.currentOp \in ReductionOps
        THEN [g EXCEPT !.cores[coreId] = core,
                       !.result = Reduce(g.currentOp, g.result, elementIndex,
                                         IF g.currentOp \in {"VMAX", "VMIN"}
                                         THEN inputA ELSE output)]
        ELSE IF g.currentOp \in {"VADD", "VSUB", "VMUL", "VDIV", "VSCALE", "VABS",
                                 "VSQRT", "VCOPY"}
        THEN [g EXCEPT !.cores[coreId] = core,
                       !.vram = ArrSet(g.vram, dstIdx, output)]
        ELSE [g EXCEPT !.cores[coreId] = core]

\* the operands of element elementIndex, then the core's work
CycleElement(g, coreId, elementIndex, inputA, inputB, dstIdx) ==
    CycleCore(g, coreId, elementIndex, inputA, inputB, dstIdx,
              LaneOutput(g.currentOp, inputA, inputB, g.scalar, g.cores[coreId].output))

CycleFetch(g, coreId, elementIndex, dstIdx) ==
    CycleElement(g, coreId, elementIndex,
                 ArrGet(g.vram, JsRem(g.srcAddr + elementIndex, VRAM_SIZE)),
                 LaneInputB(g.currentOp, g.vram, dstIdx, g.scalar), dstIdx)

RECURSIVE CycleLoop(_, _)
\* the loop over the cores in cycle() from core coreId on
CycleLoop(g, coreId) ==
    IF coreId >= GPU_CORE_COUNT \/ g.currentCoreIndex + coreId >= g.length THEN g
    ELSE CycleLoop(CycleFetch(g, coreId, g.currentCoreIndex + coreId,
                              JsRem(g.dstAddr + g.currentCoreIndex + coreId, VRAM_SIZE)),
                   coreId + 1)

\* the end of cycle(): the progress event, then completion if all is done
CycleEnd(n) ==
    IF n.cyclesRemaining <= 0 \/ n.currentCoreIndex >= n.length
    THEN GpuRes([n EXCEPT !.busy = FALSE,
                          !.cores = [i \in Cores |-> [n.cores[i] EXCEPT !.busy = FALSE]]],
                <<GpuEvent("progress", ""), GpuEvent("complete", "")>>, "complete")
    ELSE GpuRes(n, <<GpuEvent("progress", "")>>, "progress")

CycleAdvance(l) ==
    [l EXCEPT !.currentCoreIndex = @ + GPU_CORE_COUNT, !.cyclesRemaining = @ - 1]

\* GPU.cycle of the full-cycle unit
gpuCycle(g) ==
    IF ~g.busy \/ g.currentOp = "" THEN GpuRes(g, <<>>, "null")
    ELSE CycleEnd(CycleAdvance(CycleLoop(g, 0)))

\* startOperation of the attached unit
startOperation(g, op, srcAddr, dstAddr, length, scalar) ==
    IF g.kind = "phase" THEN startOperationPhase(g, op, srcAddr, dstAddr, length, scalar)
    ELSE startOperationCycle(g, op, srcAddr, dstAddr, length, scalar)

(***************************************************************************)
(* CPU: executeInstruction.  The result holds the CPU and the compute unit *)
(* after the call, the message of the exception thrown ("" if none) and    *)
(* the events the compute unit emitted.                                    *)
(***************************************************************************)
XOk(c, g, gev) == [cpu |-> c, gpu |-> g, err |-> "", gev |-> gev]
XThrow(c, g, msg) == [cpu |-> c, gpu |-> g, err |-> msg, gev |-> <<>>]
\* break: falls to this.pc++ at the end of executeInstruction
Advance(c) == [c EXCEPT !.pc = @ + 1]

\* getRegisterIndex(parts[1]) then parseValue(parts[2]): the message of the
\* exception thrown, "" if both return
RegValErr(c, ins) ==
    IF ~RegOk(ins.args[1]) THEN "Invalid register"
    ELSE IF ~ValOk(c, ins.args[2]) THEN ValErr(ins.args[2])
    ELSE ""

\* the register write and flag update shared by the arithmetic cases
WriteResult(c, g, destIdx, stored, flagValue) ==
    XOk(Advance([c EXCEPT !.registers[destIdx] = stored,
                          !.flags = setFlags(flagValue)]), g, <<>>)

\* a variant that sets the flags from the value moved
ExecMovSetsFlags(c, g, ins) ==
    IF RegValErr(c, ins) # "" THEN XThrow(c, g, RegValErr(c, ins))
    ELSE WriteResult(c, g, getRegisterIndex(ins.args[1]),
                     Mask16(parseValue(c, ins.args[2])), parseValue(c, ins.args[2]))

ExecMov(c, g, ins) ==
    IF RegValErr(c, ins) # "" THEN XThrow(c, g, RegValErr(c, ins))
    ELSE LET destIdx == getRegisterIndex(ins.args[1])
             value == parseValue(c, ins.args[2])
         IN  XOk(Advance([c EXCEPT !.registers[destIdx] = Mask16(value)]), g, <<>>)

\* ADD, SUB, MUL
ExecArith(c, g, ins) ==
    IF RegValErr(c, ins) # "" THEN XThrow(c, g, RegValErr(c, ins))
    ELSE LET destIdx == getRegisterIndex(ins.args[1])
             value == parseValue(c, ins.args[2])
             r == c.registers[destIdx]
             result == CASE ins.op = "ADD" -> r + value
                         [] ins.op = "SUB" -> r - value
                         [] OTHER -> r * value
         IN  WriteResult(c, g, destIdx, Mask16(result), result)

\* a variant of DIV/MOD that clears the destination before it raises the error
ExecDivModLate(c, g, ins) ==
    IF RegValErr(c, ins) # "" THEN XThrow(c, g, RegValErr(c, ins))
    ELSE LET destIdx == getRegisterIndex(ins.args[1])
             value == parseValue(c, ins.args[2])
             r == c.registers[destIdx]
             result == IF ins.op = "DIV" THEN FloorDiv(r, value) ELSE JsRem(r, value)
         IN  IF value = 0
             THEN XThrow([c EXCEPT !.registers[destIdx] = 0], g, "Division by zero")
             ELSE WriteResult(c, g, destIdx, Mask16(result), result)

\* DIV, MOD
ExecDivMod(c, g, ins) ==
    IF RegValErr(c, ins) # "" THEN XThrow(c, g, RegValErr(c, ins))
    ELSE LET destIdx == getRegisterIndex(ins.args[1])
             value == parseValue(c, ins.args[2])
             r == c.registers[destIdx]
             result == IF ins.op = "DIV" THEN FloorDiv(r, value) ELSE JsRem(r, value)
         IN  IF value = 0 THEN XThrow(c, g, "Division by zero")
             ELSE WriteResult(c, g, destIdx, Mask16(result), result)

\* AND, OR, XOR: the register is assigned the unmasked 32-bit result
ExecLogic(c, g, ins) ==
    IF RegValErr(c, ins) # "" THEN XThrow(c, g, RegValErr(c, ins))
    ELSE LET destIdx == getRegisterIndex(ins.args[1])
             value == parseValue(c, ins.args[2])
             r == c.registers[destIdx]
             result == CASE ins.op = "AND" -> BitAnd(r, value)
                         [] ins.op = "OR" -> BitOr(r, value)
                         [] OTHER -> BitXor(r, value)
         IN  WriteResult(c, g, destIdx, result, result)

ExecNot(c, g, ins) ==
    IF ~RegOk(ins.args[1]) THEN XThrow(c, g, "Invalid register")
    ELSE LET destIdx == getRegisterIndex(ins.args[1])
             \* ~x & 0xffff
             result == Mask16(-(c.registers[destIdx]) - 1)
         IN  WriteResult(c, g, destIdx, result, result)

\* SHL, SHR
ExecShift(c, g, ins) ==
    IF RegValErr(c, ins) # "" THEN XThrow(c, g, RegValErr(c, ins))
    ELSE LET destIdx == getRegisterIndex(ins.args[1])
             value == parseValue(c, ins.args[2])
             r == c.registers[destIdx]
             result == IF ins.op = "SHL" THEN ShiftLeftMask16(r, value)
                       ELSE ShiftRightU(r, value)
         IN  WriteResult(c, g, destIdx, result, result)

\* INC, DEC
ExecIncDec(c, g, ins) ==
    IF ~RegOk(ins.args[1]) THEN XThrow(c, g, "Invalid register")
    ELSE LET destIdx == getRegisterIndex(ins.args[1])
             result == IF ins.op = "INC" THEN c.registers[destIdx] + 1
                       ELSE c.registers[destIdx] - 1
         IN  WriteResult(c, g, destIdx, Mask16(result), result)

ExecCmp(c, g, ins) ==
    IF ~ValOk(c, ins.args[1]) THEN XThrow(c, g, ValErr(ins.args[1]))
    ELSE IF ~ValOk(c, ins.args[2]) THEN XThrow(c, g, ValErr(ins.args[2]))
    ELSE XOk(Advance([c EXCEPT !.flags =
                 setFlags(parseValue(c, ins.args[1]) - parseValue(c, ins.args[2]))]),
             g, <<>>)

\* a variant in which JG ignores the zero flag
JumpTakenOnEqual(op, flags) ==
    CASE op \in {"JZ", "JE"} -> flags.zero
      [] op \in {"JNZ", "JNE"} -> ~flags.zero
      [] op \in {"JG", "JGE"} -> ~flags.negative
      [] op = "JL" -> flags.negative
      [] op = "JLE" -> flags.zero \/ flags.negative
      [] OTHER -> TRUE

\* the flag predicate of each conditional jump
JumpTaken(op, flags) ==
    CASE op \in {"JZ", "JE"} -> flags.zero
      [] op \in {"JNZ", "JNE"} -> ~flags.zero
      [] op = "JG" -> ~flags.zero /\ ~flags.negative
      [] op = "JGE" -> ~flags.negative
      [] op = "JL" -> flags.negative
      [] op = "JLE" -> flags.zero \/ flags.negative
      [] OTHER -> TRUE

\* JMP and the conditional jumps: the target is parsed only when taken
ExecJump(c, g, ins) ==
    IF JumpTaken(ins.op, c.flags)
    THEN IF ~ValOk(c, ins.args[1]) THEN XThrow(c, g, ValErr(ins.args[1]))
         ELSE XOk([c EXCEPT !.pc = parseValue(c, ins.args[1])], g, <<>>)
    ELSE XOk(Advance(c), g, <<>>)

ExecLoad(c, g, ins) ==
    IF RegValErr(c, ins) # "" THEN XThrow(c, g, RegValErr(c, ins))
    ELSE LET destIdx == getRegisterIndex(ins.args[1])
             addr == parseValue(c, ins.args[2])
         IN  XOk(Advance([c EXCEPT !.registers[destIdx] = c.memory[Mask8(addr)]]), g, <<>>)

ExecStore(c, g, ins) ==
    IF ~ValOk(c, ins.args[1]) THEN XThrow(c, g, ValErr(ins.args[1]))
    ELSE IF ~ValOk(c, ins.args[2]) THEN XThrow(c, g, ValErr(ins.args[2]))
    ELSE XOk(Advance([c EXCEPT !.memory[Mask8(parseValue(c, ins.args[1]))] =
                                   Mask16(parseValue(c, ins.args[2]))]), g, <<>>)

ExecPush(c, g, ins) ==
    IF ~ValOk(c, ins.args[1]) THEN XThrow(c, g, ValErr(ins.args[1]))
    ELSE XOk(Advance([c EXCEPT !.memory[c.sp] = parseValue(c, ins.args[1]),
                               !.sp = Mask8(c.sp - 1)]), g, <<>>)

\* a variant that reads the cell under the old stack pointer
ExecPopStale(c, g, ins) ==
    IF ~RegOk(ins.args[1]) THEN XThrow(c, g, "Invalid register")
    ELSE XOk(Advance([c EXCEPT !.sp = Mask8(c.sp + 1),
                               !.registers[getRegisterIndex(ins.args[1])] =
                                   c.memory[c.sp]]), g, <<>>)

ExecPop(c, g, ins) ==
    IF ~RegOk(ins.args[1]) THEN XThrow(c, g, "Invalid register")
    ELSE LET newSp == Mask8(c.sp + 1)
         IN  XOk(Advance([c EXCEPT !.sp = newSp,
                                   !.registers[getRegisterIndex(ins.args[1])] =
                                       c.memory[newSp]]), g, <<>>)

\* a variant that saves the address of the CALL itself
ExecCallSavesPc(c, g, ins) ==
    IF ~ValOk(c, ins.args[1]) THEN XThrow(c, g, ValErr(ins.args[1]))
    ELSE XOk([c EXCEPT !.memory[c.sp] = c.pc,
                       !.sp = Mask8(c.sp - 1),
                       !.pc = parseValue(c, ins.args[1])], g, <<>>)

ExecCall(c, g, ins) ==
    IF ~ValOk(c, ins.args[1]) THEN XThrow(c, g, ValErr(ins.args[1]))
    ELSE XOk([c EXCEPT !.memory[c.sp] = c.pc + 1,
                       !.sp = Mask8(c.sp - 1),
                       !.pc = parseValue(c, ins.args[1])], g, <<>>)

ExecRet(c, g, ins) ==
    LET newSp == Mask8(c.sp + 1)
    IN  XOk([c EXCEPT !.sp = newSp, !.pc = c.memory[newSp]], g, <<>>)

ExecHalt(c, g, ins) == XOk(Advance([c EXCEPT !.halted = TRUE]), g, <<>>)

\* the CPU after a bridge call that returned r from the compute unit
AfterGpuCall(c, r) == XOk(Advance(c), r.gpu, r.ev)
\* the CPU after storeFromVRAM wrote its memory
AfterStore(c, g, r) == XOk(Advance([c EXCEPT !.memory = r.mem]), g, r.ev)

\* GLOAD and GSTORE
ExecTransfer(c, g, ins) ==
    IF ~c.gpu THEN XThrow(c, g, "GPU not available")
    ELSE IF FirstBadValue(c, ins, <<1, 2, 3>>) # 0
    THEN XThrow(c, g, OperandErr(ins, FirstBadValue(c, ins, <<1, 2, 3>>)))
    ELSE IF ins.op = "GLOAD"
    THEN AfterGpuCall(c, loadToVRAM(g, c.memory, parseValue(c, ins.args[2]),
                                    parseValue(c, ins.args[1]),
                                    parseValue(c, ins.args[3])))
    ELSE AfterStore(c, g, storeFromVRAM(g, c.memory, parseValue(c, ins.args[2]),
                                        parseValue(c, ins.args[1]),
                                        parseValue(c, ins.args[3])))

ExecGexec(c, g, ins) ==
    IF ~c.gpu THEN XThrow(c, g, "GPU not available")
    ELSE IF FirstBadValue(c, ins, <<2, 3, 4>>) # 0
    THEN XThrow(c, g, OperandErr(ins, FirstBadValue(c, ins, <<2, 3, 4>>)))
    ELSE IF Len(ins.args) >= 5 /\ ~ValOk(c, ins.args[5])
    THEN XThrow(c, g, ValErr(ins.args[5]))
    ELSE AfterGpuCall(c, startOperation(g, ins.args[1].s,
                                        parseValue(c, ins.args[2]),
                                        parseValue(c, ins.args[3]),
                                        parseValue(c, ins.args[4]),
                                        IF Len(ins.args) >= 5
                                        THEN parseValue(c, ins.args[5]) ELSE 0))

RECURSIVE WaitLoop(_)
\* while (this.gpu.isBusy()) this.gpu.cycle();  on the full-cycle unit
WaitLoop(r) ==
    IF ~r.gpu.busy THEN r ELSE WaitLoop(Accumulate(r, gpuCycle(r.gpu)))

\* GWAIT: the phase-stepped class has no cycle method, so the call in the
\* loop body raises a TypeError there
ExecGwait(c, g, ins) ==
    IF ~c.gpu THEN XThrow(c, g, "GPU not available")
    ELSE IF g.kind = "phase"
    THEN IF g.busy THEN XThrow(c, g, "TypeError") ELSE XOk(Advance(c), g, <<>>)
    ELSE AfterGpuCall(c, WaitLoop(GpuRes(g, <<>>, "null")))

ExecGresult(c, g, ins) ==
    IF ~c.gpu THEN XThrow(c, g, "GPU not available")
    ELSE IF ~RegOk(ins.args[1]) THEN XThrow(c, g, "Invalid register")
    ELSE XOk(Advance([c EXCEPT !.registers[getRegisterIndex(ins.args[1])] = g.result]),
             g, <<>>)

ExecGwrite(c, g, ins) ==
    IF ~c.gpu THEN XThrow(c, g, "GPU not available")
    ELSE IF ~ValOk(c, ins.args[1]) THEN XThrow(c, g, ValErr(ins.args[1]))
    ELSE IF ~ValOk(c, ins.args[2]) THEN XThrow(c, g, ValErr(ins.args[2]))
    ELSE XOk(Advance(c),
             writeVRAM(g, parseValue(c, ins.args[1]), parseValue(c, ins.args[2])), <<>>)

ExecGread(c, g, ins) ==
    IF ~c.gpu THEN XThrow(c, g, "GPU not available")
    ELSE IF RegValErr(c, ins) # "" THEN XThrow(c, g, RegValErr(c, ins))
    ELSE LET destIdx == getRegisterIndex(ins.args[1])
             addr == parseValue(c, ins.args[2])
         IN  XOk(Advance([c EXCEPT !.registers[destIdx] = readVRAM(g, addr)]), g, <<>>)

executeInstruction(c0, g, ins) ==
    LET c == [c0 EXCEPT !.cycles = @ + 1]
        op == ins.op
    IN  CASE op = "MOV" -> ExecMov(c, g, ins)
          [] op \in {"ADD", "SUB", "MUL"} -> ExecArith(c, g, ins)
          [] op \in {"DIV", "MOD"} -> ExecDivMod(c, g, ins)
          [] op \in {"AND", "OR", "XOR"} -> ExecLogic(c, g, ins)
          [] op = "NOT" -> ExecNot(c, g, ins)
          [] op \in {"SHL", "SHR"} -> ExecShift(c, g, ins)
          [] op \in {"INC", "DEC"} -> ExecIncDec(c, g, ins)
          [] op = "CMP" -> ExecCmp(c, g, ins)
          [] op = "JMP" \/ op \in CondJumps -> ExecJump(c, g, ins)
          [] op = "LOAD" -> ExecLoad(c, g, ins)
          [] op = "STORE" -> ExecStore(c, g, ins)
          [] op = "PUSH" -> ExecPush(c, g, ins)
          [] op = "POP" -> ExecPop(c, g, ins)
          [] op = "CALL" -> ExecCall(c, g, ins)
          [] op = "RET" -> ExecRet(c, g, ins)
          [] op = "NOP" -> XOk(Advance(c), g, <<>>)
          [] op \in HaltOps -> ExecHalt(c, g, ins)
          [] op \in {"GLOAD", "GSTORE"} -> ExecTransfer(c, g, ins)
          [] op = "GEXEC" -> ExecGexec(c, g, ins)
          [] op = "GWAIT" -> ExecGwait(c, g, ins)
          [] op = "GRESULT" -> ExecGresult(c, g, ins)
          [] op = "GWRITE" -> ExecGwrite(c, g, ins)
          [] op = "GREAD" -> ExecGread(c, g, ins)
          [] OTHER -> XThrow(c, g, "Unknown instruction")

(***************************************************************************)
(* CPU: reset, loadProgram, step, microStep as functions of the state      *)
(***************************************************************************)
NoFlags == [zero |-> FALSE, negative |-> FALSE, carry |-> FALSE]
ZeroRegisters == [i \in 0..(REGISTER_COUNT - 1) |-> 0]
ZeroMemory == [i \in 0..(MEMORY_SIZE - 1) |-> 0]

\* an event as its listeners receive it: halted is this.halted at the time of
\* emit(), which is both the halted field of the state snapshot the event
\* carries and what isHalted() returns during the callback. A micro event is
\* emitted past the guard and before executeInstruction (not halted), a
\* reset event after reset() cleared the flag, a guard's halt event after
\* the guard set it
CpuEvent(type, error, halted) ==
    [type |-> type, error |-> error, halted |-> halted]

\* CPU.reset: the attached compute unit reference is not touched
CPUreset(c) ==
    [registers |-> ZeroRegisters,
     memory |-> ZeroMemory,
     pc |-> 0,
     sp |-> STACK_START,
     flags |-> NoFlags,
     halted |-> FALSE,
     cycles |-> 0,
     program |-> <<>>,
     labels |-> NoLabels,
     previousRegisters |-> ZeroRegisters,
     currentStage |-> "idle",
     instructionRegister |-> EmptyIR,
     microOps |-> <<>>,
     currentMicroOpIndex |-> 0,
     gpu |-> c.gpu]

\* new CPU(): the fields' initialisers, then reset()
NewCPU == CPUreset([gpu |-> FALSE])

loadProgram(c, assembled) ==
    [CPUreset(c) EXCEPT !.program = assembled.instructions,
                        !.labels = assembled.labels]

\* a variant of the guard that stops one instruction early
AtEndOffByOne(c) == c.halted \/ c.pc + 1 >= Len(c.program)

\* the guard shared by step and microStep
AtEnd(c) == c.halted \/ c.pc >= Len(c.program)

\* this.program[this.pc]
Fetch(c) ==
    IF c.pc >= 0 /\ c.pc < Len(c.program) THEN c.program[c.pc + 1] ELSE UndefinedIR

CallRes(c, g, ev, gev, threw, ret) ==
    [cpu |-> c, gpu |-> g, events |-> ev, gev |-> gev, threw |-> threw, ret |-> ret]

\* step after executeInstruction returned or threw (x)
StepExecuted(x) ==
    IF x.err = ""
    THEN CallRes([x.cpu EXCEPT !.currentStage = "idle"], x.gpu,
                 <<CpuEvent("step", "", x.cpu.halted)>>, x.gev, FALSE,
                 IF x.cpu.halted THEN "false" ELSE "true")
    ELSE CallRes([x.cpu EXCEPT !.halted = TRUE], x.gpu,
                 <<CpuEvent("error", x.err, x.cpu.halted)>>, x.gev, FALSE, "false")

\* step after generateMicroOps returned or threw (m): it is called outside
\* the try block, so its exception leaves step()
StepGenerated(c1, g, m) ==
    IF m.err # "" THEN CallRes(c1, g, <<>>, <<>>, TRUE, "throw")
    ELSE StepExecuted(executeInstruction([c1 EXCEPT !.microOps = m.ops], g,
                                         c1.instructionRegister))

StepFetched(c1, g) == StepGenerated(c1, g, generateMicroOps(c1, c1.instructionRegister))

\* a variant of step without the halted test in its guard
stepUnguarded(c, g) ==
    IF c.pc >= Len(c.program)
    THEN CallRes([c EXCEPT !.halted = TRUE], g, <<CpuEvent("halt", "", TRUE)>>, <<>>,
                 FALSE, "false")
    ELSE StepFetched([c EXCEPT !.previousRegisters = c.registers,
                               !.instructionRegister = Fetch(c)], g)

\* CPU.step
step(c, g) ==
    IF AtEnd(c)
    THEN CallRes([c EXCEPT !.halted = TRUE], g, <<CpuEvent("halt", "", TRUE)>>, <<>>,
                 FALSE, "false")
    ELSE StepFetched([c EXCEPT !.previousRegisters = c.registers,
                               !.instructionRegister = Fetch(c)], g)

\* a variant of the end of microStep whose catch block leaves halted as it is
MicroExecutedRunsOn(x, microOp) ==
    IF x.err = ""
    THEN CallRes([x.cpu EXCEPT !.currentStage = "idle",
                               !.microOps = <<>>,
                               !.currentMicroOpIndex = 0],
                 x.gpu,
                 <<CpuEvent("micro", "", FALSE), CpuEvent("step", "", x.cpu.halted)>>
                     \o (IF x.cpu.halted THEN <<CpuEvent("halt", "", TRUE)>> ELSE <<>>),
                 x.gev, FALSE, microOp)
    ELSE CallRes(x.cpu, x.gpu,
                 <<CpuEvent("micro", "", FALSE), CpuEvent("error", x.err, x.cpu.halted)>>,
                 x.gev, FALSE, microOp)

\* microStep after executeInstruction returned or threw (x)
MicroExecuted(x, microOp) ==
    IF x.err = ""
    THEN CallRes([x.cpu EXCEPT !.currentStage = "idle",
                               !.microOps = <<>>,
                               !.currentMicroOpIndex = 0],
                 x.gpu,
                 <<CpuEvent("micro", "", FALSE), CpuEvent("step", "", x.cpu.halted)>>
                     \o (IF x.cpu.halted THEN <<CpuEvent("halt", "", TRUE)>> ELSE <<>>),
                 x.gev, FALSE, microOp)
    ELSE CallRes([x.cpu EXCEPT !.halted = TRUE], x.gpu,
                 <<CpuEvent("micro", "", FALSE), CpuEvent("error", x.err, x.cpu.halted)>>,
                 x.gev, FALSE, microOp)

\* the tail of microStep: executes the instruction after its last micro-op
MicroCommit(c, g, microOp) ==
    MicroExecuted(executeInstruction([c EXCEPT !.previousRegisters = c.registers], g,
                                     c.instructionRegister), microOp)

\* a variant of microStep that executes the instruction at every micro-op
MicroIssueEager(c3, g, microOp) == MicroCommit(c3, g, microOp)

\* microStep once this.microOps holds the current instruction's micro-ops
MicroIssue(c3, g, microOp) ==
    IF c3.currentMicroOpIndex >= Len(c3.microOps)
    THEN MicroCommit(c3, g, microOp)
    ELSE CallRes(c3, g, <<CpuEvent("micro", "", FALSE)>>, <<>>, FALSE, microOp)

MicroNext(c2, g) ==
    MicroIssue([c2 EXCEPT !.currentStage = c2.microOps[c2.currentMicroOpIndex + 1],
                          !.currentMicroOpIndex = @ + 1],
               g, c2.microOps[c2.currentMicroOpIndex + 1])

\* microStep starting a new instruction: generateMicroOps returned or threw (m)
MicroGenerated(c1, g, m) ==
    IF m.err # "" THEN CallRes(c1, g, <<>>, <<>>, TRUE, "throw")
    ELSE MicroNext([c1 EXCEPT !.microOps = m.ops, !.currentMicroOpIndex = 0], g)

MicroFetched(c1, g) == MicroGenerated(c1, g, generateMicroOps(c1, c1.instructionRegister))

\* CPU.microStep
microStep(c, g) ==
    IF AtEnd(c)
    THEN CallRes([c EXCEPT !.halted = TRUE, !.currentStage = "idle"], g, <<>>, <<>>,
                 FALSE, "null")
    ELSE IF c.currentMicroOpIndex >= Len(c.microOps)
    THEN MicroFetched([c EXCEPT !.instructionRegister = Fetch(c)], g)
    ELSE MicroNext(c, g)

(***************************************************************************)
(* Programs loaded in the model (AssembledProgram: instructions, labels)   *)
(***************************************************************************)
Program(instructions, labels) == [instructions |-> instructions, labels |-> labels]
Labels(loop, sub) == [l \in LabelNames |-> IF l = "loop" THEN loop ELSE sub]

PArith ==
    Program(<<Ins("MOV", <<Reg(0), Imm(5)>>), Ins("ADD", <<Reg(0), Imm(65535)>>),
              Ins("SUB", <<Reg(0), Imm(7)>>), Ins("HALT", <<>>)>>, NoLabels)
PDivImm ==
    Program(<<Ins("MOV", <<Reg(0), Imm(7)>>), Ins("DIV", <<Reg(0), Imm(0)>>),
              Ins("HALT", <<>>)>>, NoLabels)
PModReg ==
    Program(<<Ins("MOV", <<Reg(1), Imm(9)>>), Ins("MOD", <<Reg(1), Reg(2)>>),
              Ins("HALT", <<>>)>>, NoLabels)
PDivOk ==
    Program(<<Ins("MOV", <<Reg(0), Imm(7)>>), Ins("DIV", <<Reg(0), Imm(2)>>),
              Ins("MOD", <<Reg(0), Imm(2)>>), Ins("HLT", <<>>)>>, NoLabels)
PUnknown ==
    Program(<<Ins("MOV", <<Reg(0), Imm(1)>>), Ins("FOO", <<Reg(0), Imm(1)>>),
              Ins("HALT", <<>>)>>, NoLabels)
\* INC foo: the assembler accepts it (foo is not a register token)
PBadRegister ==
    Program(<<Ins("MOV", <<Reg(0), Imm(1)>>), Ins("INC", <<Id("foo")>>),
              Ins("HALT", <<>>)>>, NoLabels)
\* MOV R9, 1
PRegisterNine ==
    Program(<<Ins("MOV", <<Reg(9), Imm(1)>>), Ins("HALT", <<>>)>>, NoLabels)
\* ADD R0, foo with no label foo
PBadValue ==
    Program(<<Ins("MOV", <<Reg(0), Imm(1)>>), Ins("ADD", <<Reg(0), Id("foo")>>),
              Ins("HALT", <<>>)>>, NoLabels)
POffEnd ==
    Program(<<Ins("MOV", <<Reg(0), Imm(1)>>), Ins("NOP", <<>>)>>, NoLabels)
PLoop ==
    Program(<<Ins("INC", <<Reg(0)>>), Ins("JMP", <<Id("loop")>>)>>, Labels(0, NoLabel))
PJumpOut ==
    Program(<<Ins("JMP", <<Imm(7)>>), Ins("HALT", <<>>)>>, NoLabels)
PJumpNegative ==
    Program(<<Ins("JMP", <<Imm(-1)>>), Ins("HALT", <<>>)>>, NoLabels)
PStack ==
    Program(<<Ins("PUSH", <<Imm(10)>>), Ins("PUSH", <<Imm(20)>>),
              Ins("POP", <<Reg(0)>>), Ins("CALL", <<Id("sub")>>), Ins("HALT", <<>>),
              Ins("RET", <<>>)>>, Labels(NoLabel, 5))
PCond ==
    Program(<<Ins("CMP", <<Reg(0), Imm(1)>>), Ins("JL", <<Imm(3)>>),
              Ins("MOV", <<Reg(1), Imm(1)>>), Ins("JZ", <<Imm(0)>>),
              Ins("HALT", <<>>)>>, NoLabels)
PGpuAdd ==
    Program(<<Ins("GWRITE", <<Imm(0), Imm(3)>>), Ins("GWRITE", <<Imm(1), Imm(4)>>),
              Ins("GEXEC", <<Id("VADD"), Imm(0), Imm(0), Imm(2)>>),
              Ins("GWAIT", <<>>), Ins("GREAD", <<Reg(1), Imm(1)>>),
              Ins("HALT", <<>>)>>, NoLabels)
\* a second GEXEC while the first operation is in flight
PGpuBusy ==
    Program(<<Ins("GWRITE", <<Imm(0), Imm(6)>>),
              Ins("GEXEC", <<Id("VSUM"), Imm(0), Imm(0), Imm(9)>>),
              Ins("GEXEC", <<Id("VCOPY"), Imm(0), Imm(4), Imm(2)>>),
              Ins("GWAIT", <<>>), Ins("GRESULT", <<Reg(2)>>),
              Ins("HALT", <<>>)>>, NoLabels)
PGpuTransfer ==
    Program(<<Ins("MOV", <<Reg(0), Imm(5)>>), Ins("STORE", <<Imm(2), Reg(0)>>),
              Ins("GLOAD", <<Imm(0), Imm(2), Imm(2)>>),
              Ins("GSTORE", <<Imm(4), Imm(0), Imm(2)>>),
              Ins("HALT", <<>>)>>, NoLabels)

\* bridge instructions that leave an idle compute unit as it is
PBridge ==
    Program(<<Ins("GRESULT", <<Reg(1)>>), Ins("GWAIT", <<>>), Ins("HALT", <<>>)>>,
            NoLabels)

\* programs that do not change the compute unit
\* a return to a pushed address below zero
PReturnNegative ==
    Program(<<Ins("PUSH", <<Imm(-1)>>), Ins("RET", <<>>), Ins("HALT", <<>>)>>, NoLabels)

CpuPrograms ==
    {PArith, PDivImm, PModReg, PDivOk, PUnknown, PBadRegister, PRegisterNine,
     PBadValue, POffEnd, PLoop, PJumpOut, PJumpNegative, PReturnNegative, PStack,
     PCond, PBridge}

\* an operation on no elements
PGpuEmpty ==
    Program(<<Ins("GEXEC", <<Id("VADD"), Imm(0), Imm(0), Imm(0)>>),
              Ins("GWAIT", <<>>), Ins("HALT", <<>>)>>, NoLabels)

\* point writes and reads at addresses below zero and beyond the last cell
PGpuWrap ==
    Program(<<Ins("GWRITE", <<Imm(-1), Imm(5)>>), Ins("GREAD", <<Reg(1), Imm(127)>>),
              Ins("GWRITE", <<Imm(129), Imm(70000)>>), Ins("GREAD", <<Reg(2), Imm(1)>>),
              Ins("HALT", <<>>)>>, NoLabels)

\* programs that operate the compute unit
GpuPrograms == {PGpuAdd, PGpuBusy, PGpuTransfer, PGpuEmpty, PGpuWrap}

(***************************************************************************)
(* The assembler.  A source line is a sequence of tokens: the characters   *)
(* " ", ",", ";" and ":" one by one, and words of other characters         *)
(***************************************************************************)
VALID_INSTRUCTIONS ==
    {"MOV", "ADD", "SUB", "MUL", "DIV", "MOD", "AND", "OR", "XOR", "NOT", "SHL",
     "SHR", "INC", "DEC", "CMP", "JMP", "JZ", "JE", "JNZ", "JNE", "JG", "JGE",
     "JL", "JLE", "LOAD", "STORE", "PUSH", "POP", "CALL", "RET", "NOP", "HALT",
     "HLT", "GLOAD", "GSTORE", "GEXEC", "GWAIT", "GRESULT", "GWRITE", "GREAD"}

GPU_OPERATIONS ==
    {"VADD", "VSUB", "VMUL", "VDIV", "VSCALE", "VDOT", "VSUM", "VMAX", "VMIN",
     "VABS", "VSQRT", "VCOPY"}

\* the least and the greatest number of operands of an opcode
getExpectedOperands(op) ==
    CASE op \in {"NOP", "RET", "HALT", "HLT", "GWAIT"} -> <<0, 0>>
      [] op \in {"NOT", "INC", "DEC", "JMP", "JZ", "JE", "JNZ", "JNE", "JG", "JGE",
                 "JL", "JLE", "CALL", "PUSH", "POP", "GRESULT"} -> <<1, 1>>
      [] op \in {"GREAD", "GWRITE"} -> <<2, 2>>
      [] op \in {"GLOAD", "GSTORE"} -> <<3, 3>>
      [] op = "GEXEC" -> <<3, 4>>
      [] OTHER -> <<2, 2>>

validateOperandCount(op, count) ==
    count >= getExpectedOperands(op)[1] /\ count <= getExpectedOperands(op)[2]

\* the words with lower-case letters that occur in the sources, in upper case
UpperOf == [halt |-> "HALT", loop |-> "LOOP", note |-> "NOTE", sub |-> "SUB"]

toUpperCase(w) == IF w \in DOMAIN UpperOf THEN UpperOf[w] ELSE w

\* line.split(';')[0]
BeforeComment(line) ==
    IF \E i \in 1 .. Len(line) : line[i] = ";"
    THEN SubSeq(line, 1, (CHOOSE i \in 1 .. Len(line) :
                             line[i] = ";" /\ \A j \in 1 .. i - 1 : line[j] # ";") - 1)
    ELSE line

\* s.trim()
Trim(s) ==
    IF \A i \in 1 .. Len(s) : s[i] = " " THEN <<>>
    ELSE SubSeq(s, CHOOSE i \in 1 .. Len(s) : s[i] # " " /\ \A j \in 1 .. i - 1 : s[j] = " ",
                   CHOOSE i \in 1 .. Len(s) :
                       s[i] # " " /\ \A j \in i + 1 .. Len(s) : s[j] = " ")

\* a word: the words of the sources are made of letters, digits and _
IsWord(t) == t \notin {" ", ",", ";", ":"}

\* withoutComment.match(/^(\w+):(.*)$/) finds a label
labelMatch(s) == Len(s) >= 2 /\ IsWord(s[1]) /\ s[2] = ":"

RECURSIVE SplitParts(_, _)
\* content.split(/[\s,]+/).filter((p) => p): cur is the part being read
SplitParts(s, cur) ==
    IF s = <<>> THEN (IF cur = <<>> THEN <<>> ELSE <<cur>>)
    ELSE IF Head(s) \in {" ", ","}
    THEN (IF cur = <<>> THEN <<>> ELSE <<cur>>) \o SplitParts(Tail(s), <<>>)
    ELSE SplitParts(Tail(s), Append(cur, Head(s)))

\* a part as one string; a part of several tokens holds a ":" and is no
\* opcode, register, number or label name
PartText(part) == IF Len(part) = 1 THEN part[1] ELSE "?"

\* the names every JavaScript object inherits: labels[name] is defined for them
ObjectPrototypeNames ==
    {"constructor", "hasOwnProperty", "isPrototypeOf", "propertyIsEnumerable",
     "toLocaleString", "toString", "valueOf", "__proto__", "__defineGetter__",
     "__defineSetter__", "__lookupGetter__", "__lookupSetter__"}

\* labels[name] !== undefined
LabelDefined(labels, name) == name \in DOMAIN labels \/ name \in ObjectPrototypeNames

NoLabelsYet == [n \in {} |-> 0]

\* labels[name] = index
LabelSet(labels, name, index) ==
    [n \in DOMAIN labels \cup {name} |-> IF n = name THEN index ELSE labels[n]]

AssemblyError(line, message, about) == [line |-> line, message |-> message, about |-> about]

\* the first pass after a cleaned line was appended
Cleaned(st, labels, line, content) ==
    [labels |-> labels, instructionIndex |-> st.instructionIndex + 1,
     cleanedLines |-> Append(st.cleanedLines, [line |-> line, content |-> content]),
     errors |-> st.errors]

\* the first pass on a line that starts with a label
FirstPassLabel(st, i, labelName, rest) ==
    IF LabelDefined(st.labels, labelName)
    THEN [st EXCEPT !.errors = Append(@, AssemblyError(i, "Duplicate label", labelName))]
    ELSE IF rest # <<>>
    THEN Cleaned(st, LabelSet(st.labels, labelName, st.instructionIndex), i, rest)
    ELSE [st EXCEPT !.labels = LabelSet(@, labelName, st.instructionIndex)]

\* the first pass on line i, withoutComment being its text before the comment
FirstPassLine(st, i, withoutComment) ==
    IF withoutComment = <<>> THEN st
    ELSE IF labelMatch(withoutComment)
    THEN FirstPassLabel(st, i, withoutComment[1],
                        Trim(SubSeq(withoutComment, 3, Len(withoutComment))))
    ELSE Cleaned(st, st.labels, i, withoutComment)

RECURSIVE FirstPass(_, _, _)
\* the first loop of assemble, from line i on
FirstPass(lines, i, st) ==
    IF i > Len(lines) THEN st
    ELSE FirstPass(lines, i + 1, FirstPassLine(st, i, Trim(BeforeComment(lines[i]))))

\* the register tokens /^R\d$/ and the digit of each
RegisterTokens == <<"R0", "R1", "R2", "R3", "R4", "R5", "R6", "R7", "R8", "R9">>
IsRegisterToken(t) == \E k \in 1 .. Len(RegisterTokens) : RegisterTokens[k] = t
regNum(t) == (CHOOSE k \in 1 .. Len(RegisterTokens) : RegisterTokens[k] = t) - 1

\* the operand tokens of the sources that /^(0x[0-9A-Fa-f]+|\d+)$/ matches
NumberTokens == {"0", "1", "4", "5", "0x1F"}

RECURSIVE RegisterErrors(_, _, _)
\* one error for each part from the i-th on that names a register above R7
RegisterErrors(parts, i, line) ==
    IF i > Len(parts) THEN <<>>
    ELSE (IF IsRegisterToken(PartText(parts[i])) /\ regNum(PartText(parts[i])) > 7
          THEN <<AssemblyError(line, "Invalid register", PartText(parts[i]))>>
          ELSE <<>>) \o RegisterErrors(parts, i + 1, line)

JumpOps == {"JMP", "JZ", "JE", "JNZ", "JNE", "JG", "JGE", "JL", "JLE", "CALL"}

\* the error of a jump or CALL whose target is no number, register or label
LabelErrors(parts, op, labels, line) ==
    IF /\ op \in JumpOps
       /\ PartText(parts[2]) \notin NumberTokens
       /\ ~IsRegisterToken(PartText(parts[2]))
       /\ ~LabelDefined(labels, PartText(parts[2]))
    THEN <<AssemblyError(line, "Undefined label", PartText(parts[2]))>>
    ELSE <<>>

\* the error of a GEXEC whose first operand is no operation name
GpuOpErrors(parts, op, line) ==
    IF op = "GEXEC" /\ toUpperCase(PartText(parts[2])) \notin GPU_OPERATIONS
    THEN <<AssemblyError(line, "Unknown GPU operation", toUpperCase(PartText(parts[2])))>>
    ELSE <<>>

\* the second pass after a line was rejected with the given error
Rejected(out, error) == [out EXCEPT !.errors = Append(@, error)]

\* the second pass after a line was kept, with the errors found in it
Kept(out, c, errors) ==
    [instructions |-> Append(out.instructions, c.content),
     sourceMap |-> Append(out.sourceMap, c.line),
     errors |-> out.errors \o errors]

\* the second pass on the cleaned line c, split into parts
SecondPassLine(out, c, parts, op, labels) ==
    IF parts = <<>> THEN out
    ELSE IF op \notin VALID_INSTRUCTIONS
    THEN Rejected(out, AssemblyError(c.line, "Unknown instruction", op))
    ELSE IF ~validateOperandCount(op, Len(parts) - 1)
    THEN Rejected(out, AssemblyError(c.line, "Invalid operand count", op))
    ELSE Kept(out, c, RegisterErrors(parts, 2, c.line)
                        \o LabelErrors(parts, op, labels, c.line)
                        \o GpuOpErrors(parts, op, c.line))

\* parts[0].toUpperCase()
Opcode(parts) == IF parts = <<>> THEN "" ELSE toUpperCase(PartText(parts[1]))

RECURSIVE SecondPass(_, _, _, _)
\* the second loop of assemble, from the k-th cleaned line on
SecondPass(cleanedLines, k, labels, out) ==
    IF k > Len(cleanedLines) THEN out
    ELSE SecondPass(cleanedLines, k + 1, labels,
                    SecondPassLine(out, cleanedLines[k],
                                   SplitParts(cleanedLines[k].content, <<>>),
                                   Opcode(SplitParts(cleanedLines[k].content, <<>>)),
                                   labels))

\* the value assemble returns after both passes
AssemblyResult(labels, out) ==
    IF Len(out.errors) > 0 THEN [success |-> FALSE, errors |-> out.errors]
    ELSE [success |-> TRUE,
          program |-> [instructions |-> out.instructions, labels |-> labels,
                       sourceMap |-> out.sourceMap],
          errors |-> <<>>]

\* the first pass of assemble over all lines
Collected(lines) ==
    FirstPass(lines, 1, [labels |-> NoLabelsYet, instructionIndex |-> 0,
                         cleanedLines |-> <<>>, errors |-> <<>>])

\* the second pass, which appends to the errors of the first
Validated(first) ==
    AssemblyResult(first.labels,
                   SecondPass(first.cleanedLines, 1, first.labels,
                              [instructions |-> <<>>, sourceMap |-> <<>>,
                               errors |-> first.errors]))

\* Assembler.assemble(code), code given as its lines
assemble(lines) == Validated(Collected(lines))

(***************************************************************************)
(* State                                                                   *)
(***************************************************************************)
VARIABLES
    cpu,        \* the CPU object's fields
    gpu,        \* the compute unit object's fields
    events,     \* the events the CPU emitted during the last call
    gpuEvents,  \* the events the compute unit emitted during the last call
    lastCall,   \* the last call made: its name, whether it threw, its result
    twin,       \* a second CPU object, given the same program, run by step() only
    host,       \* what a direct caller of the compute unit holds and remembers
    asm         \* the source last given to the assembler and what it returned

vars == <<cpu, gpu, events, gpuEvents, lastCall, twin, host, asm>>

Call(op, threw, ret) == [op |-> op, threw |-> threw, ret |-> ret]

GpuKinds == {"cycle", "phase"}

\* no operation started, no transfer made, the caller's array all zero
NoOperation == <<>>

NewHost ==
    [memory |-> ZeroMemory, op |-> NoOperation, vram |-> NewGPU("phase").vram,
     args |-> <<>>, before |-> ZeroMemory]

\* nothing assembled yet
NoAssembly == [called |-> FALSE, source |-> <<>>, result |-> <<>>]

Init ==
    /\ cpu = NewCPU
    /\ \E kind \in GpuKinds : gpu = NewGPU(kind)
    /\ events = <<CpuEvent("reset", "", FALSE)>>
    /\ gpuEvents = <<GpuEvent("reset", "")>>
    /\ lastCall = Call("new", FALSE, "void")
    /\ twin = NewCPU
    /\ host = NewHost
    /\ asm = NoAssembly

\* the outcome of a call becomes the next state; t is the second CPU after it
ApplyBoth(name, r, t) ==
    /\ cpu' = r.cpu
    /\ gpu' = r.gpu
    /\ events' = r.events
    /\ gpuEvents' = r.gev
    /\ lastCall' = Call(name, r.threw, r.ret)
    /\ twin' = t
    /\ host' = host
    /\ asm' = asm

\* the outcome of a call on the first CPU or on the compute unit
Apply(name, r) == ApplyBoth(name, r, twin)

\* cpu.setGPU(gpu)
SetGPU ==
    /\ ~cpu.gpu
    /\ Apply("setGPU", CallRes([cpu EXCEPT !.gpu = TRUE], gpu, <<>>, <<>>, FALSE, "void"))

\* cpu.loadProgram(assembled)
LoadFrom(programs) ==
    \E p \in programs :
        Apply("loadProgram",
              CallRes(loadProgram(cpu, p), gpu, <<CpuEvent("reset", "", FALSE)>>, <<>>,
                      FALSE, "void"))

LoadCpuProgram == LoadFrom(CpuPrograms)

\* the driver's assemble: reset of both units, then cpu.loadProgram(program)
Assemble ==
    \E p \in GpuPrograms :
        Apply("assemble",
              CallRes(loadProgram(CPUreset(cpu), p), GPUreset(gpu),
                      <<CpuEvent("reset", "", FALSE), CpuEvent("reset", "", FALSE)>>,
                      <<GpuEvent("reset", "")>>, FALSE, "void"))

\* instructions are executed only below the cycle bound
MayRun(c) == AtEnd(c) \/ c.cycles < MaxCycles

\* cpu.step()
Step ==
    /\ MayRun(cpu)
    /\ Apply("step", step(cpu, gpu))

\* cpu.microStep()
MicroStep ==
    /\ MayRun(cpu)
    /\ Apply("microStep", microStep(cpu, gpu))

\* a variant of the driver's reset without gpu.reset()
ResetCpuOnly ==
    Apply("reset",
          CallRes(CPUreset(cpu), gpu, <<CpuEvent("reset", "", FALSE)>>, <<>>, FALSE, "void"))

\* the driver's reset: cpu.reset() then gpu.reset()
Reset ==
    Apply("reset",
          CallRes(CPUreset(cpu), GPUreset(gpu), <<CpuEvent("reset", "", FALSE)>>,
                  <<GpuEvent("reset", "")>>, FALSE, "void"))

\* a call on the compute unit that returned r
GpuCall(name, r) == Apply(name, CallRes(cpu, r.gpu, <<>>, r.ev, FALSE, r.ret))

\* gpu.microStep() of the phase-stepped unit
GpuMicroStep ==
    /\ gpu.kind = "phase"
    /\ GpuCall("gpu.microStep", gpuMicroStep(gpu))

\* gpu.fullCycle() of the phase-stepped unit
GpuFullCycle ==
    /\ gpu.kind = "phase"
    /\ GpuCall("gpu.fullCycle", fullCycle(gpu))

\* setGPU on both CPU objects
SetGPUBoth ==
    /\ ~cpu.gpu
    /\ ApplyBoth("setGPU",
                 CallRes([cpu EXCEPT !.gpu = TRUE], gpu, <<>>, <<>>, FALSE, "void"),
                 [twin EXCEPT !.gpu = TRUE])

\* loadProgram of the same program on both CPU objects
LoadBoth ==
    \E p \in CpuPrograms :
        ApplyBoth("loadProgram",
                  CallRes(loadProgram(cpu, p), gpu, <<CpuEvent("reset", "", FALSE)>>, <<>>,
                          FALSE, "void"),
                  loadProgram(twin, p))

\* the call r of microStep ended the instruction's micro-step sequence (or
\* there was no instruction to run)
EndsInstruction(r) ==
    r.threw \/ r.ret = "null" \/ r.cpu.currentMicroOpIndex >= Len(r.cpu.microOps)

\* the second CPU makes one step() call per micro-step sequence of the first
TwinAfter(r) == IF EndsInstruction(r) THEN step(twin, gpu).cpu ELSE twin

MicroStepWith(r) == ApplyBoth("microStep", r, TwinAfter(r))

\* cpu.microStep(), and twin.step() once the instruction's sequence is over
MicroStepBoth ==
    /\ MayRun(cpu)
    /\ MicroStepWith(microStep(cpu, gpu))

\* reset of both CPU objects and of the compute unit
ResetBoth ==
    ApplyBoth("reset",
              CallRes(CPUreset(cpu), GPUreset(gpu), <<CpuEvent("reset", "", FALSE)>>,
                      <<GpuEvent("reset", "")>>, FALSE, "void"),
              CPUreset(twin))

\* The program run by microStep() only, next to a run of it by step() only
NextMicro ==
    \/ SetGPUBoth
    \/ LoadBoth
    \/ MicroStepBoth
    \/ ResetBoth

SpecMicro == Init /\ [][NextMicro]_vars

\* The CPU alone: programs that leave the compute unit untouched
NextCPU ==
    \/ SetGPU
    \/ LoadCpuProgram
    \/ Step
    \/ MicroStep
    \/ Reset

SpecCPU == Init /\ [][NextCPU]_vars

\* The CPU with its compute unit and the driver's calls on both
Next ==
    \/ SetGPU
    \/ Assemble
    \/ Step
    \/ MicroStep
    \/ Reset
    \/ GpuMicroStep
    \/ GpuFullCycle

Spec == Init /\ [][Next]_vars

(***************************************************************************)
(* The compute unit called directly, as the driver and the CPU call it     *)
(***************************************************************************)
\* arrays a caller passes as cpuMemory: small values, and values near 2^16
HostRamp == [i \in 0 .. MEMORY_SIZE - 1 |-> IF i < 24 THEN i + 1 ELSE 0]

HostWide ==
    [i \in 0 .. MEMORY_SIZE - 1 |->
        IF i >= 24 THEN 0
        ELSE CASE i % 4 = 0 -> 40000
               [] i % 4 = 1 -> 300
               [] i % 4 = 2 -> 0
               [] OTHER -> 46000]

HostArrays == {HostRamp, HostWide}

\* (cpuAddr, vramAddr, length) of a bulk transfer: plain, wrapping in both
\* memories, starting below zero, starting beyond the last cell, wrapping in
\* compute memory only, empty
Transfers ==
    {<<0, 0, 24>>, <<250, 120, 12>>, <<0, -2, 4>>, <<3, 130, 4>>, <<20, 126, 6>>,
     <<8, 8, 0>>}

\* an operation descriptor as startOperation receives it
Descriptor(op, srcAddr, dstAddr, length, scalar) ==
    [op |-> op, srcAddr |-> srcAddr, dstAddr |-> dstAddr, length |-> length,
     scalar |-> scalar]

AllOps == TwoInputOps \cup ReductionOps \cup {"VSCALE", "VABS", "VSQRT", "VCOPY"}

\* every operation on identical and on disjoint regions, one and two batches
PlainDescriptors ==
    {Descriptor(op, 0, d, n, 3) : op \in AllOps, d \in {0, 16}, n \in {3, 9}}

\* overlapping regions, regions that wrap, addresses below zero and beyond 127
RegionDescriptors ==
    {Descriptor(op, r[1], r[2], n, -2) :
        op \in {"VADD", "VCOPY", "VSCALE", "VSUM", "VMAX", "VDOT"},
        r \in {<<2, 3>>, <<124, 8>>, <<-2, 8>>, <<130, 16>>}, n \in {4}}

\* lengths of zero, below zero, of the whole memory and beyond it
LengthDescriptors ==
    {Descriptor(op, 0, 16, n, 3) : op \in {"VADD", "VSUM", "VMIN"},
                                    n \in {-1, 0, 1, 128, 130}}

Descriptors == PlainDescriptors \cup RegionDescriptors \cup LengthDescriptors

\* the unit holds a descriptor or is busy with an operation
GpuInFlight(g) == g.pendingOp # <<>> \/ g.busy

\* a call on the compute unit by a caller that then holds h
HostCall(name, r, h) ==
    /\ cpu' = cpu
    /\ gpu' = r.gpu
    /\ events' = <<>>
    /\ gpuEvents' = r.ev
    /\ lastCall' = Call(name, FALSE, r.ret)
    /\ twin' = twin
    /\ host' = h
    /\ asm' = asm

\* gpu.loadToVRAM(cpuMemory, cpuAddr, vramAddr, length) with one of the given
\* <<array, transfer>> pairs, as the caller's first call
HostLoadOf(loads) ==
    /\ host.op = NoOperation
    /\ host.args = <<>>
    /\ \E l \in loads :
          HostCall("loadToVRAM", loadToVRAM(gpu, l[1], l[2][1], l[2][2], l[2][3]),
                   [host EXCEPT !.memory = l[1], !.args = l[2], !.vram = gpu.vram,
                                !.before = l[1]])

HostLoad == HostLoadOf(HostArrays \X Transfers)

\* the loads that prepare compute memory for an operation
Preparations ==
    {<<HostRamp, <<0, 0, 24>>>>, <<HostWide, <<0, 0, 24>>>>, <<HostWide, <<0, 120, 12>>>>,
     <<HostRamp, <<0, -2, 4>>>>}

Prepare == HostLoadOf(Preparations)

\* the caller's array after gpu.storeFromVRAM(cpuMemory, vramAddr, cpuAddr, length)
HostStored(t, r) ==
    HostCall("storeFromVRAM", GpuRes(gpu, r.ev, "void"),
             [host EXCEPT !.memory = r.mem, !.args = t, !.vram = gpu.vram,
                          !.before = host.memory])

\* gpu.storeFromVRAM(...) into the array the caller holds, while the unit is
\* idle and no earlier store has changed the array
HostStore ==
    /\ ~GpuInFlight(gpu)
    /\ host.before = host.memory
    /\ \E t \in Transfers :
          HostStored(t, storeFromVRAM(gpu, host.memory, t[2], t[1], t[3]))

\* a further operation is a reduction started after a reduction
MayStart(h, d) ==
    IF h.op = NoOperation THEN TRUE
    ELSE h.op.op \in ReductionOps /\ d.op \in ReductionOps

\* gpu.startOperation(...) on an idle unit
HostStart ==
    /\ ~GpuInFlight(gpu)
    /\ \E d \in Descriptors :
          /\ MayStart(host, d)
          /\ HostCall("startOperation",
                      startOperation(gpu, d.op, d.srcAddr, d.dstAddr, d.length,
                                     d.scalar),
                      [host EXCEPT !.op = d, !.vram = gpu.vram])

\* gpu.cycle() of the full-cycle unit
GpuCycle ==
    /\ gpu.kind = "cycle"
    /\ GpuCall("gpu.cycle", gpuCycle(gpu))

\* gpu.reset(); the caller starts over
GpuReset ==
    HostCall("gpu.reset", GpuRes(GPUreset(gpu), <<GpuEvent("reset", "")>>, "void"),
             NewHost)

\* The compute unit's operations under direct calls
NextGPU ==
    \/ Prepare
    \/ HostStart
    \/ GpuMicroStep
    \/ GpuFullCycle
    \/ GpuCycle
    \/ GpuReset

SpecGPU == Init /\ [][NextGPU]_vars

\* Bulk transfers between a caller's array and compute memory
NextDMA ==
    \/ HostLoad
    \/ HostStore
    \/ GpuReset

SpecDMA == Init /\ [][NextDMA]_vars

(***************************************************************************)
(* The CPU's instructions one by one: short programs run by the driver     *)
(***************************************************************************)
AluOps ==
    {"ADD", "SUB", "MUL", "DIV", "MOD", "AND", "OR", "XOR", "NOT", "SHL", "SHR",
     "INC", "DEC"}

OneOperandOps == {"NOT", "INC", "DEC"}

\* register contents: the ends of the 16-bit range, and values between
RegisterContents == {0, 1, 30000, 65535}

\* second operands: immediates below zero, in range and above 65535, a register
AluOperands == {Imm(-1), Imm(0), Imm(3), Imm(70000), Reg(0)}

\* the product stays below 2^31
Computable(op, a, o) == op = "MUL" /\ a = 65535 => o \in {Imm(-1), Imm(0), Imm(3)}

\* MOV R0, a followed by one arithmetic or logical instruction on R0
AluProgram(op, a, o) ==
    Program(<<Ins("MOV", <<Reg(0), Imm(a)>>),
              Ins(op, IF op \in OneOperandOps THEN <<Reg(0)>> ELSE <<Reg(0), o>>)>>,
            NoLabels)

AluCases ==
    {t \in AluOps \X RegisterContents \X AluOperands : Computable(t[1], t[2], t[3])}

AluPrograms == {AluProgram(t[1], t[2], t[3]) : t \in AluCases}

\* values pushed: the greatest 16-bit value and a small one
StackValues == {7, 65535}

\* the longest run of pushes in a program
MaxPushes == 2

PushRuns == UNION {[1 .. k -> StackValues] : k \in 1 .. MaxPushes}

\* pre times POP R0 (the stack pointer leaves 0xFF and wraps), then PUSH of
\* each value of vs, then as many POPs, into R1, R2, ...
StackProgram(pre, vs) ==
    Program([i \in 1 .. pre |-> Ins("POP", <<Reg(0)>>)]
              \o [i \in 1 .. Len(vs) |-> Ins("PUSH", <<Imm(vs[i])>>)]
              \o [i \in 1 .. Len(vs) |-> Ins("POP", <<Reg(i)>>)],
            NoLabels)

\* immediates outside the 16-bit range, which the assembler accepts
WideValues == {-1, 70000}

StackPrograms ==
    {StackProgram(pre, vs) : pre \in {0, 1}, vs \in PushRuns}
      \cup {StackProgram(0, <<v>>) : v \in WideValues}

\* a subroutine that pushes and pops as often, called once
PCallBalanced ==
    Program(<<Ins("CALL", <<Id("sub")>>), Ins("MOV", <<Reg(2), Imm(9)>>), Ins("HALT", <<>>),
              Ins("PUSH", <<Imm(5)>>), Ins("POP", <<Reg(1)>>), Ins("RET", <<>>)>>,
            Labels(NoLabel, 3))

\* a subroutine that calls a second one
PCallNested ==
    Program(<<Ins("CALL", <<Id("sub")>>), Ins("HALT", <<>>),
              Ins("CALL", <<Id("loop")>>), Ins("RET", <<>>), Ins("RET", <<>>)>>,
            Labels(4, 2))

\* a call made with the stack pointer at 0, which wraps to 0xFF
PCallWrap ==
    Program(<<Ins("POP", <<Reg(0)>>), Ins("CALL", <<Imm(3)>>), Ins("HALT", <<>>),
              Ins("RET", <<>>)>>,
            NoLabels)

\* each with the number of step() calls up to a CALL and up to the return
\* of the subroutine it calls
CallCases ==
    {[program |-> PCallBalanced, before |-> 0, after |-> 4],
     [program |-> PCallNested, before |-> 0, after |-> 4],
     [program |-> PCallNested, before |-> 1, after |-> 3],
     [program |-> PCallWrap, before |-> 1, after |-> 3]}

CallPrograms == {k.program : k \in CallCases}

\* pairs compared: equal, greater and less, with differences below and
\* from 32768
ComparedPairs == {<<0, 0>>, <<1, 0>>, <<0, 1>>, <<40000, 0>>, <<0, 40000>>}

\* R0 = a, R1 = b, CMP R0, R1 and a conditional jump over the HALT, to the
\* index past the last instruction
CompareProgram(a, b, jump) ==
    Program(<<Ins("MOV", <<Reg(0), Imm(a)>>), Ins("MOV", <<Reg(1), Imm(b)>>),
              Ins("CMP", <<Reg(0), Reg(1)>>), Ins(jump, <<Id("sub")>>),
              Ins("HALT", <<>>)>>,
            Labels(NoLabel, 5))

ComparePrograms ==
    {CompareProgram(ab[1], ab[2], jump) : ab \in ComparedPairs, jump \in CondJumps}

\* one instruction of each kind that moves data, transfers control or
\* drives the compute unit
FrameInstructions ==
    {Ins("MOV", <<Reg(1), Imm(5)>>), Ins("LOAD", <<Reg(1), Imm(3)>>),
     Ins("STORE", <<Imm(3), Imm(7)>>), Ins("PUSH", <<Imm(4)>>), Ins("POP", <<Reg(1)>>),
     Ins("JMP", <<Id("sub")>>), Ins("CALL", <<Id("sub")>>), Ins("RET", <<>>),
     Ins("NOP", <<>>), Ins("HALT", <<>>), Ins("HLT", <<>>),
     Ins("GLOAD", <<Imm(0), Imm(0), Imm(4)>>), Ins("GSTORE", <<Imm(0), Imm(0), Imm(4)>>),
     Ins("GEXEC", <<Id("VADD"), Imm(0), Imm(8), Imm(4)>>), Ins("GWAIT", <<>>),
     Ins("GRESULT", <<Reg(1)>>), Ins("GWRITE", <<Imm(1), Imm(5)>>),
     Ins("GREAD", <<Reg(1), Imm(1)>>)}

\* CMP 0, f sets the flags (zero for f = 0, negative and carry for f = 1),
\* then the instruction runs
FrameProgram(f, ins) ==
    Program(<<Ins("CMP", <<Imm(0), Imm(f)>>), ins>>, Labels(NoLabel, 2))

FramePrograms == {FrameProgram(f, ins) : f \in {0, 1}, ins \in FrameInstructions}

\* programs that operate the CPU's instructions
IsaPrograms ==
    AluPrograms \cup StackPrograms \cup CallPrograms \cup ComparePrograms
      \cup FramePrograms

\* the driver's assemble with one of the given programs
AssembleFrom(programs) ==
    \E p \in programs :
        Apply("assemble",
              CallRes(loadProgram(CPUreset(cpu), p), GPUreset(gpu),
                      <<CpuEvent("reset", "", FALSE), CpuEvent("reset", "", FALSE)>>,
                      <<GpuEvent("reset", "")>>, FALSE, "void"))

\* no instruction of the loaded program has been worked on yet
Unstarted(c) == c.cycles = 0 /\ c.microOps = <<>>

\* the driver attaches the compute unit when it is constructed, before any
\* program is assembled; assemble resets both units, so the state it leaves
\* depends on the program alone and assembling over a program that has run
\* reaches no further state
AssembleIsa == cpu.gpu /\ Unstarted(cpu) /\ AssembleFrom(IsaPrograms)

\* The CPU's instruction set under the driver's calls
NextISA ==
    \/ SetGPU
    \/ AssembleIsa
    \/ Step
    \/ MicroStep

SpecISA == Init /\ [][NextISA]_vars

(***************************************************************************)
(* The assembler called on short sources                                   *)
(***************************************************************************)
\* the lines of the sources: blank, comment, label alone, label with an
\* instruction, instructions in upper and lower case and with a comment,
\* and lines the assembler finds fault with or passes over
SourceLines ==
    {<<>>,
     <<" ", ";", " ", "note">>,
     <<"loop", ":">>,
     <<"loop", ":", " ", "INC", " ", "R0">>,
     <<"MOV", " ", "R0", ",", " ", "5", " ", ";", "note">>,
     <<" ", "halt">>,
     <<"JMP", " ", "loop">>,
     <<"FOO", " ", "R1">>,
     <<"MOV", " ", "R9", ",", "1">>,
     <<"GEXEC", " ", "VBAD", " ", "0", ",", "0", ",", "4">>,
     <<"INC">>,
     <<",">>,
     <<"loop", ":", " ", "FOO">>,
     <<"CALL", " ", "toString">>,
     <<"GEXEC", " ", "VADD", ",", "0", ",", "0">>,
     <<"GEXEC", " ", "VADD", ",", "0", ",", "0", ",", "4">>,
     <<"GEXEC", " ", "VSCALE", ",", "0", ",", "0", ",", "4", ",", "5">>}

\* the most lines of a source
MaxLines == 3

Sources == UNION {[1 .. n -> SourceLines] : n \in 1 .. MaxLines}

\* assembler.assemble(code); the assembler keeps nothing between calls, so
\* the first call of a behaviour reaches every result
AssembleSource ==
    \E source \in Sources :
        /\ ~asm.called
        /\ asm' = [called |-> TRUE, source |-> source, result |-> assemble(source)]
        /\ lastCall' = Call("Assembler.assemble", FALSE,
                            IF assemble(source).success THEN "success" ELSE "failure")
        /\ UNCHANGED <<cpu, gpu, events, gpuEvents, twin, host>>

NextAsm == AssembleSource

SpecAsm == Init /\ [][NextAsm]_vars

(***************************************************************************)
(* The driver (Simulator): Step, Micro Step, Run and Run Micro             *)
(***************************************************************************)
\* a call that the driver makes on the compute unit alone
UnitCall(c, r) == CallRes(c, r.gpu, <<>>, r.ev, FALSE, r.ret)

\* the driver returns at once: if (this.cpu.isHalted()) return
NoCall(c, g) == CallRes(c, g, <<>>, <<>>, FALSE, "void")

\* if (this.gpu.hasPendingWork()) this.gpu.fullCycle()
DrainFirst(g) ==
    IF hasPendingWork(g) THEN fullCycle(g) ELSE GpuRes(g, <<>>, "null")

\* this.cpu.step() after the compute unit's call d
StepAfter(c, d) == [step(c, d.gpu) EXCEPT !.gev = d.ev \o @]

\* Simulator.step
simulatorStep(c, g) == IF c.halted THEN NoCall(c, g) ELSE StepAfter(c, DrainFirst(g))

\* the body shared by Simulator.microStep and the interval callback of
\* run(true)
microTick(c, g) ==
    IF hasPendingWork(g) THEN UnitCall(c, gpuMicroStep(g)) ELSE microStep(c, g)

\* Simulator.microStep
simulatorMicroStep(c, g) == IF c.halted THEN NoCall(c, g) ELSE microTick(c, g)

\* the interval callback of run(false): this.cpu.step()
runTick(c, g) == step(c, g)

\* a write, an operation on one element and a read of its outcome with no
\* GWAIT in between
PGpuNoWait ==
    Program(<<Ins("GWRITE", <<Imm(0), Imm(3)>>),
              Ins("GEXEC", <<Id("VCOPY"), Imm(0), Imm(4), Imm(1)>>),
              Ins("GREAD", <<Reg(1), Imm(4)>>),
              Ins("HALT", <<>>)>>, NoLabels)

DriverPrograms == GpuPrograms \cup {PGpuNoWait}

\* the driver is constructed with the phase-stepped unit attached
Driving == cpu.gpu /\ gpu.kind = "phase" /\ MayRun(cpu)

\* the driver's assemble on the freshly constructed units
AssembleDriver == Driving /\ Unstarted(cpu) /\ AssembleFrom(DriverPrograms)

\* the Step button
SimStep == Driving /\ Apply("Simulator.step", simulatorStep(cpu, gpu))

\* the Micro Step button
SimMicroStep == Driving /\ Apply("Simulator.microStep", simulatorMicroStep(cpu, gpu))

\* one interval of Run; run() starts no interval on a halted CPU, and the
\* interval is cleared by stop() in the call that halts the CPU
RunTick == Driving /\ ~cpu.halted /\ Apply("run", runTick(cpu, gpu))

\* one interval of Run Micro
RunMicroTick == Driving /\ ~cpu.halted /\ Apply("runMicro", microTick(cpu, gpu))

\* The driver's buttons; Stop between two intervals lets any other follow
NextDriver ==
    \/ SetGPU
    \/ AssembleDriver
    \/ SimStep
    \/ SimMicroStep
    \/ RunTick
    \/ RunMicroTick
    \/ Reset

SpecDriver == Init /\ [][NextDriver]_vars

(***************************************************************************)
(* Observations shared by the properties                                   *)
(***************************************************************************)
\* the architectural state of a CPU
ArchOf(c) ==
    [registers |-> c.registers, memory |-> c.memory, flags |-> c.flags,
     pc |-> c.pc, sp |-> c.sp, halted |-> c.halted, cycles |-> c.cycles]

\* the positions of the error events among the events of a call
ErrorEvents(ev) == {i \in 1..Len(ev) : ev[i].type = "error"}

\* the instruction that a microStep call on c works on
MicroInstruction(c) ==
    IF c.currentMicroOpIndex >= Len(c.microOps) THEN Fetch(c) ELSE c.instructionRegister

\* a microStep call on c issues the last micro-op of its instruction
MicroIsLast(c) ==
    IF c.currentMicroOpIndex >= Len(c.microOps)
    THEN /\ generateMicroOps(c, Fetch(c)).err = ""
         /\ Len(generateMicroOps(c, Fetch(c)).ops) = 1
    ELSE c.currentMicroOpIndex + 1 = Len(c.microOps)

\* the step taken is a call of step() or of microStep()
CalledStep == lastCall'.op = "step"
CalledMicroStep == lastCall'.op = "microStep"

\* the step taken is a call that runs executeInstruction
Committing ==
    \/ CalledStep /\ ~AtEnd(cpu) /\ ~lastCall'.threw
    \/ CalledMicroStep /\ ~AtEnd(cpu) /\ MicroIsLast(cpu)

\* the instruction that call executes
CommittedIns == IF CalledStep THEN Fetch(cpu) ELSE MicroInstruction(cpu)

\* the step taken is a call in which a runtime error was reported
RaisesError == (CalledStep \/ CalledMicroStep) /\ ErrorEvents(events') # {}

\* ins has an unknown opcode, an invalid register reference, an invalid
\* operand literal, or is a bridge opcode on a CPU without a compute unit
FaultyInstruction(c, g, ins) ==
    \/ generateMicroOps(c, ins).err \in {"Invalid register", "Invalid value"}
    \/ executeInstruction(c, g, ins).err \in
           {"Unknown instruction", "Invalid register", "Invalid value",
            "GPU not available"}

\* the call ended with the CPU halted and exactly one error event
EndsFatally ==
    cpu'.halted /\ Cardinality(ErrorEvents(events')) = 1 /\ ~lastCall'.threw

(***************************************************************************)
(* C1: when the instruction at PC has an unknown opcode, an invalid        *)
(* register reference, an invalid operand literal, or is a bridge opcode   *)
(* with no compute unit attached, step() and the microStep() sequence of   *)
(* that instruction end with halted = true and exactly one error event,    *)
(* and no call returns abnormally.                                         *)
(***************************************************************************)
C1_FaultIsFatal ==
    [][/\ (CalledStep /\ ~AtEnd(cpu) /\ cpu.pc >= 0
             /\ FaultyInstruction(cpu, gpu, Fetch(cpu)))
          => EndsFatally
       /\ (CalledMicroStep /\ ~AtEnd(cpu) /\ cpu.pc >= 0
             /\ FaultyInstruction(cpu, gpu, MicroInstruction(cpu)))
          => /\ ~lastCall'.threw
             /\ MicroIsLast(cpu) => EndsFatally]_vars

(***************************************************************************)
(* C2: executing DIV Rd, x or MOD Rd, x with x = 0, by step() or by the    *)
(* last microStep() of the instruction, halts the CPU with an error event  *)
(* and leaves every register as it was before the instruction.             *)
(***************************************************************************)
DividesByZero(c, ins) ==
    /\ ins.op \in {"DIV", "MOD"}
    /\ RegValErr(c, ins) = ""
    /\ parseValue(c, ins.args[2]) = 0

C2_DivisionByZero ==
    [][(Committing /\ DividesByZero(cpu, CommittedIns))
        => /\ cpu'.halted
           /\ ErrorEvents(events') # {}
           /\ cpu'.registers = cpu.registers]_vars

\* MOD R1, R2 with R1 = 9 and R2 = 0 was executed by microStep()
C2_Witness ==
    /\ lastCall.op = "microStep"
    /\ cpu.instructionRegister = Ins("MOD", <<Reg(1), Reg(2)>>)
    /\ cpu.halted
    /\ ErrorEvents(events) # {}
    /\ cpu.registers[1] = 9

(***************************************************************************)
(* C3: when an instruction raises a runtime error, registers, memory,      *)
(* flags, PC, SP and cycle count after the call equal those before the     *)
(* instruction (only halted changes), and the compute unit's memory,       *)
(* pending operation and busy flag are unchanged.                          *)
(***************************************************************************)
C3_ErrorLeavesState ==
    [][RaisesError
        => /\ [ArchOf(cpu') EXCEPT !.halted = cpu.halted] = ArchOf(cpu)
           /\ gpu'.vram = gpu.vram
           /\ gpu'.pendingOp = gpu.pendingOp
           /\ gpu'.busy = gpu.busy]_vars

(***************************************************************************)
(* C6: once the CPU is halted, every step() or microStep() call leaves     *)
(* registers, memory, flags, PC, SP and cycle count unchanged and halted   *)
(* true; halted becomes false only through reset() or loadProgram().       *)
(***************************************************************************)
C6_HaltedIsTerminal ==
    [][/\ (cpu.halted /\ (CalledStep \/ CalledMicroStep))
          => ArchOf(cpu') = ArchOf(cpu)
       /\ (cpu.halted /\ ~cpu'.halted)
          => lastCall'.op \in {"reset", "loadProgram"}]_vars

\* step() was called on a CPU that a division by zero had halted
C6_Witness ==
    /\ lastCall = Call("step", FALSE, "false")
    /\ events = <<CpuEvent("halt", "", TRUE)>>
    /\ cpu.halted
    /\ cpu.instructionRegister.op = "DIV"
    /\ cpu.pc < Len(cpu.program)

(***************************************************************************)
(* C7 as stated: halted goes from false to true only in a call that        *)
(* executes HALT/HLT or in which a runtime error is raised; no value of PC *)
(* makes the CPU halted.                                                   *)
(***************************************************************************)
C7_HaltOnlyByHaltOrError ==
    [][(~cpu.halted /\ cpu'.halted)
        => \/ Committing /\ CommittedIns.op \in HaltOps
           \/ RaisesError]_vars

(***************************************************************************)
(* C7 amended: halted goes from false to true only in a call that executes *)
(* HALT/HLT, in which a runtime error is raised, or that is made with PC   *)
(* at or beyond the end of the program.                                    *)
(***************************************************************************)
C7_HaltByHaltErrorOrEnd ==
    [][(~cpu.halted /\ cpu'.halted)
        => \/ Committing /\ CommittedIns.op \in HaltOps
           \/ RaisesError
           \/ (CalledStep \/ CalledMicroStep) /\ cpu.pc >= Len(cpu.program)]_vars

\* a call found PC behind the last instruction, a NOP, and halted the CPU
C7_Witness ==
    /\ cpu.halted
    /\ cpu.instructionRegister.op = "NOP"
    /\ cpu.pc = Len(cpu.program)
    /\ events = <<CpuEvent("halt", "", TRUE)>>

(***************************************************************************)
(* C4: in a run made of microStep() calls only, every call other than the  *)
(* last one of an instruction leaves registers, memory, flags, PC, SP,     *)
(* halted and cycle count unchanged; the instruction is executed once, in  *)
(* the call that returns its last micro-operation.                         *)
(***************************************************************************)
C4_MutationOnlyAtLast ==
    [][(CalledMicroStep /\ ~AtEnd(cpu))
        => IF MicroIsLast(cpu)
           THEN cpu'.cycles = cpu.cycles + 1
           ELSE ArchOf(cpu') = ArchOf(cpu)]_vars

\* ADD R0, 65535 is between two of its micro-ops and R0 still holds 5
C4_Witness ==
    /\ lastCall.op = "microStep"
    /\ cpu.instructionRegister.op = "ADD"
    /\ cpu.currentMicroOpIndex > 0
    /\ cpu.currentMicroOpIndex < Len(cpu.microOps)
    /\ cpu.registers[0] = 5
    /\ cpu.cycles = 1

(***************************************************************************)
(* C5: from the same loaded program, a run by step() only and a run by     *)
(* microStep() only have, after every instruction, the same registers,     *)
(* memory, flags, PC, SP, halted flag and cycle count.                     *)
(***************************************************************************)
C5_SameAsStep ==
    cpu.currentMicroOpIndex >= Len(cpu.microOps) => ArchOf(cpu) = ArchOf(twin)

\* both runs executed MOV, ADD, SUB and HALT and hold 65533 in R0
C5_Witness ==
    /\ lastCall.op = "microStep"
    /\ cpu.currentMicroOpIndex >= Len(cpu.microOps)
    /\ cpu.halted /\ twin.halted
    /\ cpu.cycles = 4 /\ twin.cycles = 4
    /\ cpu.registers[0] = 65533 /\ twin.registers[0] = 65533

(***************************************************************************)
(* C8: after a reset, from whatever state it was issued, all registers and *)
(* all 256 memory cells are 0, all flags false, PC 0, SP 0xFF, halted      *)
(* false, cycle count 0 and no micro-operation is in flight; the compute   *)
(* unit has all 128 cells 0, all 8 lanes idle with zero inputs and output, *)
(* result 0, no pending descriptor, stage idle and is not busy.            *)
(***************************************************************************)
CpuAtDefaults(c) ==
    /\ DOMAIN c.registers = 0..7 /\ \A i \in 0..7 : c.registers[i] = 0
    /\ DOMAIN c.memory = 0..255 /\ \A i \in 0..255 : c.memory[i] = 0
    /\ ~c.flags.zero /\ ~c.flags.negative /\ ~c.flags.carry
    /\ c.pc = 0 /\ c.sp = 255 /\ ~c.halted /\ c.cycles = 0
    /\ c.microOps = <<>> /\ c.currentMicroOpIndex = 0

GpuAtDefaults(g) ==
    /\ DOMAIN g.vram = 0..127 /\ \A i \in 0..127 : g.vram[i] = 0
    /\ DOMAIN g.cores = 0..7
    /\ \A i \in 0..7 : /\ ~g.cores[i].busy
                       /\ g.cores[i].inputA = 0
                       /\ g.cores[i].inputB = 0
                       /\ g.cores[i].output = 0
    /\ g.result = 0 /\ g.pendingOp = <<>> /\ g.currentStage = "idle" /\ ~g.busy

C8_ResetRestoresDefaults ==
    [][lastCall'.op = "reset" => CpuAtDefaults(cpu') /\ GpuAtDefaults(gpu')]_vars

\* the reset has been issued on a CPU with its compute unit attached
C8_Witness ==
    /\ lastCall.op = "reset"
    /\ cpu.gpu
    /\ CpuAtDefaults(cpu)
    /\ GpuAtDefaults(gpu)

(***************************************************************************)
(* C9: executing GEXEC (calling startOperation) while the compute unit is  *)
(* busy, a descriptor pending or an operation between decode and           *)
(* completion, is rejected: descriptor, stage, batch counter, lanes and    *)
(* result of the operation in flight are unchanged and the CPU reports a   *)
(* fatal runtime error.                                                    *)
(***************************************************************************)
C9_BusyStartRejected ==
    [][(Committing /\ CommittedIns.op = "GEXEC" /\ cpu.gpu /\ GpuInFlight(gpu))
        => /\ gpu'.pendingOp = gpu.pendingOp
           /\ gpu'.currentStage = gpu.currentStage
           /\ gpu'.currentBatch = gpu.currentBatch
           /\ gpu'.cores = gpu.cores
           /\ gpu'.result = gpu.result
           /\ cpu'.halted
           /\ ErrorEvents(events') # {}]_vars

(***************************************************************************)
(* C10: for one started operation the calls of the compute unit's stepping *)
(* function visit decode, then fetch, execute, writeback once per batch,   *)
(* then completion (stage idle, busy cleared, complete event); a fetch     *)
(* follows only decode or a writeback with a batch left, and busy is       *)
(* cleared only by the completion step.                                    *)
(***************************************************************************)
\* a fetch, execute, writeback pass is started for a batch that exists
StartsBatch == gpu'.currentStage = "fetch" /\ gpu'.busy /\ gpu.currentBatch < gpu.totalBatches

\* the completion step
Completes ==
    /\ gpu'.currentStage = "idle"
    /\ ~gpu'.busy
    /\ gpuEvents' = <<GpuEvent("complete", "idle")>>
    /\ gpu.currentBatch = gpu.totalBatches

C10_StageOrder ==
    [][(lastCall'.op = "gpu.microStep" /\ hasPendingWork(gpu))
        => IF gpu.pendingOp # <<>>
           THEN gpu'.currentStage = "decode" /\ gpu'.busy
           ELSE CASE gpu.currentStage = "decode" -> StartsBatch
                  [] gpu.currentStage = "fetch" ->
                        gpu'.currentStage = "execute" /\ gpu'.busy
                  [] gpu.currentStage = "execute" ->
                        gpu'.currentStage = "writeback" /\ gpu'.busy
                  [] gpu.currentStage = "writeback" -> StartsBatch \/ Completes
                  [] OTHER -> FALSE]_vars

(***************************************************************************)
(* Stepping the compute unit to the end of an operation                    *)
(***************************************************************************)
\* the stepping function of the unit: microStep or cycle
steppingCall(g) == IF g.kind = "phase" THEN gpuMicroStep(g) ELSE gpuCycle(g)

\* nothing pending and not busy
GpuIdle(g) == ~hasPendingWork(g) /\ ~g.busy

RECURSIVE IdleWithin(_, _)
\* at most n calls of the stepping function leave the unit idle
IdleWithin(g, n) ==
    IF GpuIdle(g) THEN TRUE
    ELSE IF n = 0 THEN FALSE
    ELSE IdleWithin(steppingCall(g).gpu, n - 1)

\* decode and completion, and three phases for each batch of a full memory
DrainCalls == 3 * CeilDiv(VRAM_SIZE, GPU_CORE_COUNT) + 2

\* the loop that drains the unit: fullCycle, or the wait loop of GWAIT
drain(g) ==
    IF g.kind = "phase" THEN fullCycle(g) ELSE WaitLoop(GpuRes(g, <<>>, "null"))

\* an operation has been started and the unit has come to rest after it
Drained == host.op # NoOperation /\ ~GpuInFlight(gpu)

(***************************************************************************)
(* C11: whatever operation, addresses and length (zero, negative, beyond   *)
(* 128) startOperation was given, calling the stepping function again and  *)
(* again leaves the unit with no pending work and not busy after finitely  *)
(* many calls, so the draining loops end, and end with the unit idle.      *)
(***************************************************************************)
C11_SteppingTerminates ==
    /\ IdleWithin(gpu, DrainCalls)
    /\ GpuIdle(drain(gpu).gpu)

\* operations of length zero, below zero and beyond 128 have been stepped to
\* their end
C11_Witness ==
    /\ Drained
    /\ host.op.length \in {-1, 0, 130}
    /\ lastCall.op \in {"gpu.microStep", "gpu.cycle"}

(***************************************************************************)
(* C12: when GWAIT is executed on a CPU with a compute unit, the unit is   *)
(* afterwards not busy and has no pending work, the operation started by   *)
(* the preceding GEXEC having gone through all its batches; executed while *)
(* the unit is idle, GWAIT changes nothing except PC and cycle count.      *)
(***************************************************************************)
\* the step taken executes GWAIT on a CPU that has a compute unit
ExecutesGwait == Committing /\ CommittedIns.op = "GWAIT" /\ cpu.gpu

\* the CPU's architectural state differs only by PC and cycle count advanced
OnlyPcAndCycles ==
    ArchOf(cpu') = [ArchOf(cpu) EXCEPT !.pc = @ + 1, !.cycles = @ + 1]

\* no batch of the unit's operation is left to do
BatchesDone(g) ==
    IF g.kind = "phase" THEN g.currentBatch >= g.totalBatches
    ELSE g.cyclesRemaining <= 0 \/ g.currentCoreIndex >= g.length

C12_WaitDrains ==
    [][ExecutesGwait
        => /\ ~GpuInFlight(gpu')
           /\ ~hasPendingWork(gpu')
           /\ BatchesDone(gpu')
           /\ ~GpuInFlight(gpu) => gpu' = gpu /\ OnlyPcAndCycles]_vars

(***************************************************************************)
(* C13: an operation started with length L makes ceil(L/8) fetch, execute, *)
(* writeback passes before it completes, and in every reachable state of   *)
(* the phase-stepped unit 0 <= currentBatch <= totalBatches, so that the   *)
(* cyclesRemaining it reports is never negative.                           *)
(***************************************************************************)
\* cyclesRemaining as getState of the phase-stepped unit reports it
reportedCyclesRemaining(g) == g.totalBatches - g.currentBatch

C13_BatchCount ==
    gpu.kind = "phase"
        => /\ 0 <= gpu.currentBatch
           /\ gpu.currentBatch <= gpu.totalBatches
           /\ reportedCyclesRemaining(gpu) >= 0
           /\ Drained => gpu.currentBatch = CeilDiv(host.op.length, GPU_CORE_COUNT)

(***************************************************************************)
(* Compute memory as 128 cells addressed modulo 128                        *)
(***************************************************************************)
\* the cell that address a names
CellOf(a) == a % VRAM_SIZE

\* the content of that cell in the memory v
Cell(v, a) == ArrGet(v, CellOf(a))

\* the cells of the region of n elements from address a on
Region(a, n) == {CellOf(a + i) : i \in 0 .. n - 1}

\* source and destination of the operation d are the same cells in the same
\* order, or share no cell
IdenticalOrDisjoint(d) ==
    \/ CellOf(d.srcAddr) = CellOf(d.dstAddr)
    \/ Region(d.srcAddr, d.length) \cap Region(d.dstAddr, d.length) = {}

ElementwiseOps == AllOps \ ReductionOps

\* the floor of the square root of a 16-bit value
FloorSqrt(a) == CHOOSE r \in 0 .. 255 : r * r <= a /\ a < (r + 1) * (r + 1)

\* what an elementwise operation is to compute from a source element a, the
\* old destination element b and the scalar k, before masking
Elementwise(op, a, b, k) ==
    CASE op = "VADD" -> a + b
      [] op = "VSUB" -> a - b
      [] op = "VMUL" -> a * b
      [] op = "VDIV" -> IF b = 0 THEN 0 ELSE a \div b
      [] op = "VSCALE" -> a * k
      [] op = "VABS" -> IF a >= 32768 THEN 65536 - a ELSE a
      [] op = "VSQRT" -> FloorSqrt(a)
      [] op = "VCOPY" -> a

\* the value due in destination element i of the operation d started on memory v
DueElement(d, v, i) ==
    Elementwise(d.op, Cell(v, d.srcAddr + i), Cell(v, d.dstAddr + i), d.scalar) % 65536

(***************************************************************************)
(* C14: after an elementwise operation of length L <= 128 on identical or  *)
(* disjoint source and destination regions has been drained, destination   *)
(* cell i < L holds f(src[i], old dst[i]) masked to 16 bits, every cell     *)
(* outside the destination region is as it was, and the unit is not busy.  *)
(***************************************************************************)
C14_Elementwise ==
    (/\ Drained
     /\ host.op.op \in ElementwiseOps
     /\ host.op.length <= VRAM_SIZE
     /\ IdenticalOrDisjoint(host.op))
        => /\ \A i \in 0 .. host.op.length - 1 :
                 Cell(gpu.vram, host.op.dstAddr + i) = DueElement(host.op, host.vram, i)
           /\ \A c \in (0 .. VRAM_SIZE - 1) \ Region(host.op.dstAddr, host.op.length) :
                 Cell(gpu.vram, c) = Cell(host.vram, c)
           /\ ~gpu.busy

(***************************************************************************)
(* What a reduction is to leave in the result register                     *)
(***************************************************************************)
\* the term that element i adds to a dot product or to a sum
Term(d, v, i) ==
    IF d.op = "VDOT"
    THEN (Cell(v, d.srcAddr + i) * Cell(v, d.dstAddr + i)) % 65536
    ELSE Cell(v, d.srcAddr + i)

RECURSIVE TermSum(_, _, _, _)
\* the sum of the terms of the elements lo .. hi
TermSum(d, v, lo, hi) ==
    IF lo > hi THEN 0
    ELSE IF lo = hi THEN Term(d, v, lo)
    ELSE TermSum(d, v, lo, (lo + hi) \div 2) + TermSum(d, v, (lo + hi) \div 2 + 1, hi)

\* the source elements of the operation d on memory v
SourceElements(d, v) == {Cell(v, d.srcAddr + i) : i \in 0 .. d.length - 1}

Maximum(S) == CHOOSE m \in S : \A x \in S : x <= m

Minimum(S) == CHOOSE m \in S : \A x \in S : m <= x

\* the result due for the reduction d started on memory v
DueResult(d, v) ==
    CASE d.op \in {"VDOT", "VSUM"} -> TermSum(d, v, 0, d.length - 1) % 65536
      [] d.op = "VMAX" -> Maximum(SourceElements(d, v))
      [] d.op = "VMIN" -> Minimum(SourceElements(d, v))

(***************************************************************************)
(* C15: after a reduction of length L >= 1 has been drained, the result    *)
(* register holds, for dot, the sum over i < L of src[i]*dst[i] mod 2^16,  *)
(* mod 2^16; for sum, the sum of the src[i] mod 2^16; for max and min, the *)
(* maximum and minimum of src[0..L-1], whatever the result register held   *)
(* from an earlier operation.                                              *)
(***************************************************************************)
C15_Reduction ==
    (Drained /\ host.op.op \in ReductionOps /\ host.op.length >= 1)
        => gpu.result = DueResult(host.op, host.vram)

(***************************************************************************)
(* C16: a reduction (dot, sum, max, min) leaves every compute-memory cell  *)
(* as it was when the operation was started, through all its phases and    *)
(* batches and after its completion.                                       *)
(***************************************************************************)
\* the operation started last is a reduction
Reducing == host.op # NoOperation /\ host.op.op \in ReductionOps

C16_ReductionKeepsMemory == Reducing => gpu.vram = host.vram

\* a reduction over two batches of nonzero cells has been drained and has
\* left a result
C16_Witness ==
    /\ Reducing
    /\ Drained
    /\ host.op.length = 9
    /\ gpu.result # 0
    /\ Cell(host.vram, host.op.dstAddr) # 0

(***************************************************************************)
(* C17: in every reachable state of the compute unit, a unit that is not   *)
(* busy has no busy lane; right after decode and after each writeback no   *)
(* lane is busy; and in the fetch and execute phases of batch b of an      *)
(* operation of length L exactly the lanes 0 .. min(8, L - 8b) - 1 are     *)
(* busy.                                                                   *)
(***************************************************************************)
\* the lanes marked busy
BusyLanes(g) == {i \in Cores : g.cores[i].busy}

\* the lanes that batch b of an operation of length n occupies
LanesOfBatch(n, b) == 0 .. Min(GPU_CORE_COUNT, n - GPU_CORE_COUNT * b) - 1

\* the phase-stepped unit is between decode and completion of the operation
\* started last
InPhase(stages) ==
    /\ gpu.kind = "phase"
    /\ gpu.busy
    /\ gpu.pendingOp = <<>>
    /\ gpu.currentStage \in stages

C17_LaneOccupancy ==
    /\ ~gpu.busy => BusyLanes(gpu) = {}
    /\ InPhase({"decode", "writeback"}) => BusyLanes(gpu) = {}
    /\ InPhase({"fetch", "execute"})
          => BusyLanes(gpu) = LanesOfBatch(host.op.length, gpu.currentBatch)

\* the second batch of an operation of length 9 is in its execute phase, with
\* one lane busy
C17_Witness ==
    /\ InPhase({"execute"})
    /\ host.op.length = 9
    /\ gpu.currentBatch = 1
    /\ BusyLanes(gpu) = {0}

(***************************************************************************)
(* C18: for every operation, source and destination address (overlapping   *)
(* regions included), length and initial compute memory, the phase-stepped *)
(* unit drained and the full-cycle unit run to completion end with the     *)
(* same compute memory and the same result register.                       *)
(***************************************************************************)
\* the unit of the given kind with compute memory v, started on the
\* operation d and run to completion
RunOn(kind, v, d) ==
    drain(startOperation([NewGPU(kind) EXCEPT !.vram = v], d.op, d.srcAddr,
                         d.dstAddr, d.length, d.scalar).gpu).gpu

OtherKind(kind) == IF kind = "phase" THEN "cycle" ELSE "phase"

\* the other unit's outcome of the operation started last
OtherOutcome == RunOn(OtherKind(gpu.kind), host.vram, host.op)

C18_PhaseRefinesCycle ==
    Drained => /\ gpu.vram = OtherOutcome.vram
               /\ gpu.result = OtherOutcome.result

(***************************************************************************)
(* C19: a bulk load of n <= 128 cells from CPU address c to compute        *)
(* address v sets vram[(v+i) mod 128] = mem[(c+i) mod 256] for every i < n *)
(* in one step and changes no CPU memory cell and no other compute-memory  *)
(* cell; a bulk store is the mirror image; so a bulk load v,c,n followed   *)
(* at once by a bulk store c,v,n leaves CPU memory unchanged.              *)
(***************************************************************************)
\* the CPU memory cell that address a names
MemCellOf(a) == a % MEMORY_SIZE

\* the step taken is a bulk load, a bulk store, of at most 128 cells
Loads == lastCall'.op = "loadToVRAM" /\ host'.args[3] <= VRAM_SIZE
Stores == lastCall'.op = "storeFromVRAM" /\ host'.args[3] <= VRAM_SIZE

\* the load with arguments t = (c, v, n) has copied the cells and nothing else
Loaded(t) ==
    /\ \A i \in 0 .. t[3] - 1 :
          Cell(gpu'.vram, t[2] + i) = host'.memory[MemCellOf(t[1] + i)]
    /\ \A k \in (0 .. VRAM_SIZE - 1) \ Region(t[2], t[3]) :
          Cell(gpu'.vram, k) = Cell(gpu.vram, k)
    /\ host'.memory = host'.before
    /\ storeFromVRAM(gpu', host'.memory, t[2], t[1], t[3]).mem = host'.memory

\* the store with arguments t = (c, v, n) has copied the cells and nothing else
Stored(t) ==
    /\ \A i \in 0 .. t[3] - 1 :
          host'.memory[MemCellOf(t[1] + i)] = Cell(gpu.vram, t[2] + i)
    /\ \A k \in (0 .. MEMORY_SIZE - 1) \ {MemCellOf(t[1] + i) : i \in 0 .. t[3] - 1} :
          host'.memory[k] = host.memory[k]
    /\ gpu'.vram = gpu.vram

C19_BulkTransfer ==
    [][/\ Loads => Loaded(host'.args)
       /\ Stores => Stored(host'.args)]_vars

(***************************************************************************)
(* C20: compute-memory addresses wrap modulo 128 for every integer address *)
(* a program can give, beyond 127 and below zero alike: after GWRITE a, v  *)
(* a point read at any address congruent to a modulo 128 returns           *)
(* v mod 2^16, and compute memory never holds a value at an index outside  *)
(* 0..127.                                                                 *)
(***************************************************************************)
\* the step taken executes GWRITE on a CPU that has a compute unit
ExecutesGwrite == Committing /\ CommittedIns.op = "GWRITE" /\ cpu.gpu

\* addresses congruent to a modulo 128
Congruent(a) == {a - VRAM_SIZE, a, a + VRAM_SIZE, CellOf(a)}

\* what a point read at every address congruent to a returns is v mod 2^16
ReadsBack(g, a, v) == \A b \in Congruent(a) : readVRAM(g, b) = v % 65536

C20_AddressesWrap ==
    [][/\ ExecutesGwrite
            => ReadsBack(gpu', parseValue(cpu, CommittedIns.args[1]),
                         parseValue(cpu, CommittedIns.args[2]))
       /\ DOMAIN gpu'.vram \subseteq 0 .. VRAM_SIZE - 1]_vars

(***************************************************************************)
(* C21: an arithmetic or logical instruction (ADD, SUB, MUL, DIV, MOD,     *)
(* AND, OR, XOR, NOT, SHL, SHR, INC, DEC) executed on registers that hold  *)
(* values of 0..65535, with a register or an immediate of any sign and     *)
(* size as operand, leaves its destination register within 0..65535.       *)
(***************************************************************************)
Word(v) == v \in 0 .. 65535

WordRegisters(c) == \A i \in DOMAIN c.registers : Word(c.registers[i])

\* the call executes an instruction with one of the given opcodes
Executes(ops) == Committing /\ CommittedIns.op \in ops

\* the destination register of the instruction the call executes
Destination == getRegisterIndex(CommittedIns.args[1])

C21_AluResultIsWord ==
    [][(Executes(AluOps) /\ RegOk(CommittedIns.args[1]) /\ WordRegisters(cpu))
        => Word(cpu'.registers[Destination])]_vars

(***************************************************************************)
(* C22: in every reachable state each of the eight registers holds a value *)
(* of 0..65535, whichever instruction wrote it (MOV, LOAD, POP, GRESULT,   *)
(* GREAD and the arithmetic and logical instructions).                     *)
(***************************************************************************)
C22_RegistersAreWords ==
    /\ DOMAIN cpu.registers = 0 .. REGISTER_COUNT - 1
    /\ WordRegisters(cpu)

(***************************************************************************)
(* C23: in every reachable state each of the 256 memory cells holds a      *)
(* value of 0..65535, whichever instruction wrote it (STORE, PUSH, CALL,   *)
(* the bulk store from compute memory) and whatever operand it was given.  *)
(***************************************************************************)
WordMemory(c) == \A a \in DOMAIN c.memory : Word(c.memory[a])

C23_MemoryCellsAreWords ==
    /\ DOMAIN cpu.memory = 0 .. MEMORY_SIZE - 1
    /\ WordMemory(cpu)

(***************************************************************************)
(* C24: the stack is last-in first-out.  The stack pointer starts at 0xFF  *)
(* and stays within 0..255; PUSH writes its value at the stack pointer and *)
(* then decrements it modulo 256, POP increments it modulo 256 and then    *)
(* reads the cell it points to; so k pushes of values of 0..65535 followed *)
(* by k pops deliver the values in reverse order and leave the stack       *)
(* pointer where it was before the first push.                             *)
(***************************************************************************)
RECURSIVE stepsFrom(_, _, _)
\* the CPU after n calls of step()
stepsFrom(c, g, n) ==
    IF n = 0 THEN c ELSE stepsFrom(step(c, g).cpu, step(c, g).gpu, n - 1)

\* the CPU has run all of the given program, one cycle per instruction
Completed(c, p) ==
    /\ c.program = p.instructions
    /\ c.pc = Len(p.instructions)
    /\ c.cycles = Len(p.instructions)
    /\ ~c.halted

\* the i-th pop delivered the i-th last value pushed, for each i
Delivered(c, vs) == \A i \in 1 .. Len(vs) : c.registers[i] = vs[Len(vs) + 1 - i]

\* the call assembled the given program
Assembled(p) == lastCall'.op = "assemble" /\ cpu'.program = p.instructions

\* c, which has run the pushes and pops of vs after pre pops, holds the
\* values in reverse order and the stack pointer of before the first push
LifoOutcome(c, pre, vs) ==
    /\ Completed(c, StackProgram(pre, vs))
    /\ Delivered(c, vs)
    /\ c.sp = (255 + pre) % 256

C24_StackIsLifo ==
    /\ cpu.sp = 255
    /\ [][/\ cpu'.sp \in 0 .. 255
          /\ cpu'.cycles = 0 => cpu'.sp = 255
          /\ Executes({"PUSH", "POP"})
              => /\ (CommittedIns.op = "PUSH" /\ ValOk(cpu, CommittedIns.args[1]))
                     => /\ cpu'.memory =
                               [cpu.memory EXCEPT
                                   ![cpu.sp] = parseValue(cpu, CommittedIns.args[1])]
                        /\ cpu'.sp = (cpu.sp - 1) % 256
                 /\ (CommittedIns.op = "POP" /\ RegOk(CommittedIns.args[1]))
                     => /\ cpu'.sp = (cpu.sp + 1) % 256
                        /\ cpu'.registers[Destination] = cpu.memory[cpu'.sp]
                        /\ cpu'.memory = cpu.memory
          /\ (lastCall'.op = "assemble" /\ Fetch(cpu').op \in {"PUSH", "POP"})
              => \A pre \in {0, 1}, vs \in PushRuns :
                    Assembled(StackProgram(pre, vs))
                     => LifoOutcome(stepsFrom(cpu', gpu', pre + 2 * Len(vs)), pre, vs)]_vars

\* two values were pushed and popped around the wrap of the stack pointer
C24_Witness ==
    /\ Completed(cpu, StackProgram(1, <<7, 65535>>))
    /\ cpu.registers[1] = 65535
    /\ cpu.registers[2] = 7
    /\ cpu.sp = 0

(***************************************************************************)
(* C25: CALL t executed at PC p writes p + 1 to memory[SP], decrements SP  *)
(* modulo 256 and sets PC to t, without the increment of PC that follows   *)
(* other instructions; RET increments SP modulo 256 and sets PC to         *)
(* memory[SP]; so after a subroutine that pops as often as it pushes, RET  *)
(* resumes at p + 1 with SP as it was before the CALL, nested calls        *)
(* included.                                                               *)
(***************************************************************************)
\* the subroutine called from `called` has returned in `returned`
Resumed(called, returned) ==
    /\ Fetch(called).op = "CALL"
    /\ ~returned.halted
    /\ returned.pc = called.pc + 1
    /\ returned.sp = called.sp

C25_CallAndReturn ==
    [][/\ (Executes({"CALL"}) /\ ValOk(cpu, CommittedIns.args[1]))
           => /\ cpu'.memory = [cpu.memory EXCEPT ![cpu.sp] = cpu.pc + 1]
              /\ cpu'.sp = (cpu.sp - 1) % 256
              /\ cpu'.pc = parseValue(cpu, CommittedIns.args[1])
              /\ cpu'.registers = cpu.registers
       /\ Executes({"RET"})
           => /\ cpu'.sp = (cpu.sp + 1) % 256
              /\ cpu'.pc = cpu.memory[cpu'.sp]
              /\ cpu'.memory = cpu.memory
              /\ cpu'.registers = cpu.registers
       /\ lastCall'.op = "assemble"
           => \A k \in CallCases :
                 Assembled(k.program)
                  => Resumed(stepsFrom(cpu', gpu', k.before),
                             stepsFrom(cpu', gpu', k.after))]_vars

\* the balanced subroutine has returned to the instruction after its CALL
C25_Witness ==
    /\ cpu.program = PCallBalanced.instructions
    /\ cpu.cycles = 4
    /\ cpu.pc = 1
    /\ cpu.sp = 255
    /\ cpu.registers[1] = 5
    /\ cpu.memory[255] = 1

(***************************************************************************)
(* C26: after every arithmetic, logical and compare instruction (ADD, SUB, *)
(* MUL, DIV, MOD, AND, OR, XOR, NOT, SHL, SHR, INC, DEC, CMP) the flags    *)
(* are those of the raw, unmasked result r of the operation: zero iff      *)
(* r = 0, negative iff r < 0 or bit 15 of r is set, carry iff r is outside *)
(* 0..65535.                                                               *)
(***************************************************************************)
\* a << n on 32-bit integers, for a of 0..65535
ShiftLeft32(a, n) ==
    IF n % 32 <= 15 THEN a * Pow2(n % 32)
    ELSE IF n % 32 = 31 THEN (IF a % 2 = 1 THEN (-1073741824) * 2 ELSE 0)
    ELSE IF a % Pow2(32 - (n % 32)) >= Pow2(31 - (n % 32))
    THEN ((a % Pow2(32 - (n % 32))) - Pow2(32 - (n % 32))) * Pow2(n % 32)
    ELSE (a % Pow2(32 - (n % 32))) * Pow2(n % 32)

\* the result of the operation before any masking, on operands a and b
rawResult(op, a, b) ==
    CASE op \in {"ADD"} -> a + b
      [] op \in {"SUB", "CMP"} -> a - b
      [] op = "MUL" -> a * b
      [] op = "DIV" -> FloorDiv(a, b)
      [] op = "MOD" -> JsRem(a, b)
      [] op = "AND" -> BitAnd(a, b)
      [] op = "OR" -> BitOr(a, b)
      [] op = "XOR" -> BitXor(a, b)
      [] op = "NOT" -> (-a) - 1
      [] op = "SHL" -> ShiftLeft32(a, b)
      [] op = "SHR" -> ShiftRightU(a, b)
      [] op = "INC" -> a + 1
      [] op = "DEC" -> a - 1

FlagsOf(r) ==
    [zero |-> r = 0,
     negative |-> r < 0 \/ (r % 65536) >= 32768,
     carry |-> r < 0 \/ r > 65535]

\* the instruction's operands are valid and it does not divide by zero
Computes(c, ins) ==
    /\ ValOk(c, ins.args[1])
    /\ ins.op \notin OneOperandOps => ValOk(c, ins.args[2])
    /\ ins.op \in {"DIV", "MOD"} => parseValue(c, ins.args[2]) # 0

\* the raw result of the instruction on the CPU c
RawOf(c, ins) ==
    rawResult(ins.op, parseValue(c, ins.args[1]),
              IF ins.op \in OneOperandOps THEN 0 ELSE parseValue(c, ins.args[2]))

C26_FlagsFromRawResult ==
    [][(Executes(AluOps \cup {"CMP"}) /\ WordRegisters(cpu)
          /\ Computes(cpu, CommittedIns))
        => cpu'.flags = FlagsOf(RawOf(cpu, CommittedIns))]_vars

(***************************************************************************)
(* C27: MOV, LOAD, STORE, PUSH, POP, every jump, CALL, RET, NOP, HALT and  *)
(* every bridge instruction leave the zero, negative and carry flags as    *)
(* they were before the instruction.                                       *)
(***************************************************************************)
FlagKeepingOps ==
    {"MOV", "LOAD", "STORE", "PUSH", "POP", "JMP", "CALL", "RET", "NOP"}
      \cup CondJumps \cup HaltOps \cup BridgeOps

C27_FlagsKept ==
    [][Executes(FlagKeepingOps) => cpu'.flags = cpu.flags]_vars

\* a MOV has run with the negative and carry flags set by the CMP before it
C27_Witness ==
    /\ cpu.program = FrameProgram(1, Ins("MOV", <<Reg(1), Imm(5)>>)).instructions
    /\ cpu.cycles = 2
    /\ cpu.registers[1] = 5
    /\ cpu.flags = [zero |-> FALSE, negative |-> TRUE, carry |-> TRUE]

(***************************************************************************)
(* C28: a conditional jump is taken exactly when its flag predicate holds  *)
(* (JZ/JE: zero; JNZ/JNE: not zero; JG: not zero and not negative; JGE:    *)
(* not negative; JL: negative; JLE: zero or negative); PC becomes the      *)
(* target when it is taken and PC + 1 otherwise, and nothing else changes  *)
(* but the cycle count; the condition its micro-op shows is the same       *)
(* predicate.                                                              *)
(***************************************************************************)
Predicate(op, flags) ==
    CASE op \in {"JZ", "JE"} -> flags.zero
      [] op \in {"JNZ", "JNE"} -> ~flags.zero
      [] op = "JG" -> ~flags.zero /\ ~flags.negative
      [] op = "JGE" -> ~flags.negative
      [] op = "JL" -> flags.negative
      [] op = "JLE" -> flags.zero \/ flags.negative

\* what a shown condition says of the flags
Shown(text, flags) ==
    CASE text = "Zero=1" -> flags.zero
      [] text = "Zero=0" -> ~flags.zero
      [] text = "Zero=0 AND Neg=0" -> ~flags.zero /\ ~flags.negative
      [] text = "Neg=0" -> ~flags.negative
      [] text = "Neg=1" -> flags.negative
      [] text = "Zero=1 OR Neg=1" -> flags.zero \/ flags.negative

\* c after a conditional jump to target that was or was not taken
Jumped(c, taken, target) ==
    [ArchOf(c) EXCEPT !.pc = IF taken THEN target ELSE c.pc + 1,
                      !.cycles = c.cycles + 1]

C28_ConditionalJumps ==
    [][(Executes(CondJumps) /\ ValOk(cpu, CommittedIns.args[1]))
        => /\ ArchOf(cpu') =
                Jumped(cpu, Predicate(CommittedIns.op, cpu.flags),
                       parseValue(cpu, CommittedIns.args[1]))
           /\ gpu' = gpu
           /\ Shown(conditionMap(CommittedIns.op), cpu.flags)
                <=> Predicate(CommittedIns.op, cpu.flags)]_vars

\* JG was taken after comparing 1 with 0
C28_Witness ==
    /\ cpu.program = CompareProgram(1, 0, "JG").instructions
    /\ cpu.cycles = 4
    /\ cpu.pc = Len(cpu.program)
    /\ ~cpu.flags.zero /\ ~cpu.flags.negative

(***************************************************************************)
(* C29: for all a and b of 0..65535, CMP Ra, Rb with Ra = a and Rb = b     *)
(* writes no register and no memory cell, and the conditional jump after   *)
(* it is taken as the comparison of a with b says: JG exactly when a > b,  *)
(* JL exactly when a < b, JZ and JE exactly when a = b.                    *)
(***************************************************************************)
Relation(jump, a, b) ==
    CASE jump = "JG" -> a > b
      [] jump = "JL" -> a < b
      [] jump \in {"JZ", "JE"} -> a = b

\* compared is the CPU after CMP R0, R1 on a and b, jumped the CPU after
\* the conditional jump that follows
ComparesAs(loaded, compared, jumped, jump, a, b) ==
    /\ compared.registers = [loaded.registers EXCEPT ![0] = a, ![1] = b]
    /\ compared.memory = loaded.memory
    /\ (jumped.pc = Len(jumped.program)) <=> Relation(jump, a, b)

C29_CompareOrdersOperands ==
    [][lastCall'.op = "assemble"
        => \A ab \in ComparedPairs, jump \in {"JG", "JL", "JZ", "JE"} :
              Assembled(CompareProgram(ab[1], ab[2], jump))
               => ComparesAs(cpu', stepsFrom(cpu', gpu', 3), stepsFrom(cpu', gpu', 4),
                             jump, ab[1], ab[2])]_vars

(***************************************************************************)
(* C30: assemble() reports success exactly when it produced no diagnostic  *)
(* over the whole source; on failure it returns no program; on success the *)
(* program holds the instruction text of every line that is not blank, not *)
(* a comment and not a label alone, in source order, with a source-line    *)
(* map of the same length.                                                 *)
(***************************************************************************)
\* what a line holds besides its comment and its label
TextOf(line) ==
    IF labelMatch(Trim(BeforeComment(line)))
    THEN Trim(SubSeq(Trim(BeforeComment(line)), 3, Len(Trim(BeforeComment(line)))))
    ELSE Trim(BeforeComment(line))

RECURSIVE InstructionTexts(_)
\* the texts of the lines that hold one, in source order
InstructionTexts(lines) ==
    IF lines = <<>> THEN <<>>
    ELSE (IF TextOf(Head(lines)) = <<>> THEN <<>> ELSE <<TextOf(Head(lines))>>)
           \o InstructionTexts(Tail(lines))

\* result is all or nothing for the source
AllOrNothing(source, result) ==
    /\ result.success <=> result.errors = <<>>
    /\ ~result.success => "program" \notin DOMAIN result
    /\ result.success
        => /\ result.program.instructions = InstructionTexts(source)
           /\ Len(result.program.sourceMap) = Len(result.program.instructions)

C30_AssemblyAllOrNothing == asm.called => AllOrNothing(asm.source, asm.result)

(***************************************************************************)
(* C31: when a line defines a label that an earlier line has defined, the  *)
(* assembler reports a duplicate label and returns no program, and the     *)
(* instruction text after the label on that line is still kept: it is      *)
(* validated in the second pass, so that its own diagnostics (unknown      *)
(* instruction, wrong operand count) are reported as well.                 *)
(***************************************************************************)
\* the label a line defines, or "" when it defines none
LabelOf(line) ==
    IF labelMatch(Trim(BeforeComment(line))) THEN Trim(BeforeComment(line))[1] ELSE ""

\* line i of the source defines a label that an earlier line defines
Redefines(source, i) ==
    /\ LabelOf(source[i]) # ""
    /\ \E j \in 1 .. i - 1 : LabelOf(source[j]) = LabelOf(source[i])

\* the result holds a diagnostic with the message for the line
Reports(result, line, message) ==
    \E k \in 1 .. Len(result.errors) :
        result.errors[k].line = line /\ result.errors[k].message = message

\* the opcode of a text, in upper case
OpcodeOf(text) == Opcode(SplitParts(text, <<>>))

\* the diagnostics that the text of line i deserves are in the result
TextValidated(result, i, text) ==
    /\ OpcodeOf(text) \notin VALID_INSTRUCTIONS
        => Reports(result, i, "Unknown instruction")
    /\ (/\ OpcodeOf(text) \in VALID_INSTRUCTIONS
        /\ ~validateOperandCount(OpcodeOf(text), Len(SplitParts(text, <<>>)) - 1))
        => Reports(result, i, "Invalid operand count")

C31_DuplicateLabelKeepsText ==
    asm.called
     => \A i \in 1 .. Len(asm.source) :
           Redefines(asm.source, i)
            => /\ Reports(asm.result, i, "Duplicate label")
               /\ ~asm.result.success
               /\ "program" \notin DOMAIN asm.result
               /\ TextOf(asm.source[i]) # <<>>
                   => TextValidated(asm.result, i, TextOf(asm.source[i]))

(***************************************************************************)
(* C32: on successful assembly every label maps to the index, in the       *)
(* returned instruction list, of the first instruction at or after the     *)
(* line that defines it, for references before and after the definition;   *)
(* every label index lies in 0 .. number of instructions; and the target   *)
(* of every jump or CALL that is no number and no register names a label   *)
(* the source defines.                                                     *)
(***************************************************************************)
\* the labels the source defines
LabelsOf(source) == {LabelOf(source[i]) : i \in 1 .. Len(source)} \ {""}

\* how many of the returned instructions come from lines before line i: the
\* index of the first instruction at or after line i
IndexAt(program, i) ==
    Cardinality({k \in 1 .. Len(program.sourceMap) : program.sourceMap[k] < i})

\* the target of the k-th returned instruction, a jump or CALL, is a number,
\* a register or a label of the source
TargetResolved(source, text) ==
    OpcodeOf(text) \in JumpOps
     => \/ PartText(SplitParts(text, <<>>)[2]) \in NumberTokens
        \/ IsRegisterToken(PartText(SplitParts(text, <<>>)[2]))
        \/ PartText(SplitParts(text, <<>>)[2]) \in LabelsOf(source)

LabelsResolved(source, program) ==
    /\ DOMAIN program.labels = LabelsOf(source)
    /\ \A i \in 1 .. Len(source) :
          LabelOf(source[i]) # ""
           => /\ program.labels[LabelOf(source[i])] = IndexAt(program, i)
              /\ program.labels[LabelOf(source[i])] \in 0 .. Len(program.instructions)
    /\ \A k \in 1 .. Len(program.instructions) :
          TargetResolved(source, program.instructions[k])

C32_LabelsResolve ==
    (asm.called /\ asm.result.success) => LabelsResolved(asm.source, asm.result.program)

(***************************************************************************)
(* C33: however calls of step() and microStep() are interleaved on a       *)
(* loaded program (step() between instructions or in the middle of a       *)
(* micro-step sequence, microStep() after a step()), every call that       *)
(* executes an instruction executes the one stored at program[PC] at that  *)
(* moment, so that no instruction is executed twice at one visit of its    *)
(* address and none is skipped.                                            *)
(***************************************************************************)
C33_CommitExecutesProgramAtPc ==
    [][Committing => CommittedIns = Fetch(cpu)]_vars

(***************************************************************************)
(* C34: every instruction fetch by step() or microStep() uses a PC with    *)
(* 0 <= PC < program length; whenever PC is outside that range, after a    *)
(* jump, CALL or RET to any value a program can produce, a negative one    *)
(* included, the call halts the CPU instead of fetching.                    *)
(***************************************************************************)
\* PC names an instruction of the loaded program
InProgram(c) == 0 <= c.pc /\ c.pc < Len(c.program)

\* the step taken is a call that reads this.program[this.pc]
Fetching ==
    \/ CalledStep /\ ~AtEnd(cpu)
    \/ CalledMicroStep /\ ~AtEnd(cpu) /\ cpu.currentMicroOpIndex >= Len(cpu.microOps)

C34_FetchWithinProgram ==
    [][/\ Fetching => InProgram(cpu)
       /\ (CalledStep \/ CalledMicroStep) /\ ~InProgram(cpu)
              => cpu'.halted /\ ~Fetching]_vars

(***************************************************************************)
(* C35: at the moment a listener receives an error event, the state        *)
(* snapshot carried by the event and the CPU's isHalted() query both       *)
(* report halted = true, so a listener reading the flag during the         *)
(* callback sees the CPU as halted.                                         *)
(***************************************************************************)
C35_ErrorEventSeesHalted ==
    [][CalledStep \/ CalledMicroStep
           => \A i \in ErrorEvents(events') : events'[i].halted]_vars

(***************************************************************************)
(* C36: every call of step() or microStep() in which the halted flag goes  *)
(* from false to true emits, during that same call, exactly one halt event *)
(* or one error event: for HALT executed through step(), HALT executed     *)
(* through microStep(), and running past the last instruction in either    *)
(* mode.                                                                    *)
(***************************************************************************)
\* the halt and error events among the events of one call
HaltNotices(ev) == {i \in 1..Len(ev) : ev[i].type \in {"halt", "error"}}

\* the step taken is a call in which the CPU becomes halted
Halting == (CalledStep \/ CalledMicroStep) /\ ~cpu.halted /\ cpu'.halted

C36_HaltingCallNotifiesOnce ==
    [][Halting => Cardinality(HaltNotices(events')) = 1]_vars

(***************************************************************************)
(* C37: the operand counts the assembler accepts for GEXEC coincide with   *)
(* what the CPU consumes: `GEXEC op, src, dst, len` and                    *)
(* `GEXEC op, src, dst, len, scalar` both assemble, and every GEXEC the    *)
(* assembler accepts supplies the length operand the CPU reads, so it      *)
(* executes without a missing-operand failure.                              *)
(***************************************************************************)
\* parseInt of a number token
NumberValue(t) ==
    CASE t = "0" -> 0 [] t = "1" -> 1 [] t = "4" -> 4 [] t = "5" -> 5
      [] t = "0x1F" -> 31

\* an operand as the CPU reads it from its part of the instruction text
OperandOf(t) ==
    IF IsRegisterToken(t) THEN Reg(regNum(t))
    ELSE IF t \in NumberTokens THEN Imm(NumberValue(t))
    ELSE Id(t)

\* instruction.split(/[\s,]+/).filter((p) => p) with parts[0].toUpperCase()
InsOfParts(parts) ==
    Ins(toUpperCase(PartText(parts[1])),
        [k \in 1 .. (Len(parts) - 1) |-> OperandOf(PartText(parts[k + 1]))])

InsOf(text) == InsOfParts(SplitParts(text, <<>>))

\* the number of operands of an instruction text
OperandCount(text) == Len(SplitParts(text, <<>>)) - 1

\* text is GEXEC with an operation name and the operands src, dst, len and
\* possibly scalar
GexecForm(text) ==
    /\ OpcodeOf(text) = "GEXEC"
    /\ OperandCount(text) \in {4, 5}
    /\ InsOf(text).args[1].s \in GPU_OPERATIONS
    /\ \A k \in 2 .. OperandCount(text) : InsOf(text).args[k].k = "imm"

\* the CPU finds every operand it reads for the instruction text:
\* generateMicroOps, which step() and microStep() call before
\* executeInstruction, reads the same parts as executeInstruction
OperandsSupplied(c, text) == generateMicroOps(c, InsOf(text)).err # "TypeError"

\* no diagnostic of result is about the line
Accepted(result, line) == \A k \in 1 .. Len(result.errors) : result.errors[k].line # line

GexecAssembles(source, result) ==
    \A i \in 1 .. Len(source) : GexecForm(TextOf(source[i])) => Accepted(result, i)

GexecExecutes(c, program) ==
    \A k \in 1 .. Len(program.instructions) :
        OpcodeOf(program.instructions[k]) = "GEXEC"
            => OperandsSupplied(c, program.instructions[k])

C37_GexecOperandCounts ==
    asm.called
        => /\ GexecAssembles(asm.source, asm.result)
           /\ asm.result.success => GexecExecutes(cpu, asm.result.program)

(***************************************************************************)
(* C38: in every reachable state of the phase-stepped compute unit, after  *)
(* any sequence of reset, startOperation, microStep, fullCycle and         *)
(* transfer calls, isBusy() is true exactly when hasPendingWork() is true  *)
(* (a descriptor is pending, or the stage is not idle).                    *)
(***************************************************************************)
isBusy(g) == g.busy

C38_BusyIffPendingWork ==
    gpu.kind = "phase"
        => /\ isBusy(gpu) <=> hasPendingWork(gpu)
           /\ hasPendingWork(gpu) <=> (gpu.pendingOp # <<>> \/ gpu.currentStage # "idle")

\* an operation in its execute phase, its descriptor no longer pending
C38_Witness ==
    /\ gpu.kind = "phase"
    /\ isBusy(gpu)
    /\ gpu.pendingOp = <<>>
    /\ gpu.currentStage = "execute"
    /\ lastCall.op = "gpu.microStep"

(***************************************************************************)
(* C39: under every driver action (Step, Micro Step, Run, Run Micro) the   *)
(* CPU never advances, neither by a micro-operation nor by an instruction  *)
(* commit, while the compute unit has pending work: pending work is always *)
(* advanced or drained first, so the final CPU and compute-unit state of a *)
(* program does not depend on the driver mode that executed it.            *)
(***************************************************************************)
DriverModes == {"Simulator.step", "Simulator.microStep", "run", "runMicro"}

\* the most driver actions of one run
MaxTicks == 48

\* one action of the driver in the given mode
Tick(mode, c, g) ==
    CASE mode = "Simulator.step" -> simulatorStep(c, g)
      [] mode = "Simulator.microStep" -> simulatorMicroStep(c, g)
      [] mode = "run" -> runTick(c, g)
      [] mode = "runMicro" -> microTick(c, g)

RECURSIVE RunIn(_, _, _, _)
\* the units after the driver ran them in one mode until the CPU halted, for
\* n actions at most
RunIn(mode, c, g, n) ==
    IF n = 0 \/ c.halted THEN [cpu |-> c, gpu |-> g]
    ELSE RunIn(mode, Tick(mode, c, g).cpu, Tick(mode, c, g).gpu, n - 1)

\* what a run leaves in the CPU and in the compute unit
Outcome(r) == [cpu |-> ArchOf(r.cpu), vram |-> r.gpu.vram, result |-> r.gpu.result]

\* two runs that both halted left the same state
SameOutcome(r1, r2) == r1.cpu.halted /\ r2.cpu.halted => Outcome(r1) = Outcome(r2)

ModeIndependent(c, g) ==
    \A mode \in DriverModes :
        SameOutcome(RunIn("Simulator.step", c, g, MaxTicks), RunIn(mode, c, g, MaxTicks))

\* the step taken is a driver action in which the CPU issued a micro-operation
\* or committed an instruction
CpuAdvanced ==
    /\ lastCall'.op \in DriverModes
    /\ \/ cpu'.cycles # cpu.cycles
       \/ cpu'.currentMicroOpIndex # cpu.currentMicroOpIndex

\* the compute unit as that driver action presents it to the CPU
UnitAtCpuCall ==
    IF lastCall'.op = "Simulator.step" THEN DrainFirst(gpu).gpu ELSE gpu

C39_CpuWaitsForComputeUnit ==
    [][/\ CpuAdvanced => ~hasPendingWork(UnitAtCpuCall)
       /\ lastCall'.op = "assemble" => ModeIndependent(cpu', gpu')]_vars

=============================================================================
